---- MODULE Spec2Model ----
(***************************************************************************)
(* schedula: per-user appointment calendar.                                *)
(*                                                                         *)
(* Instants are integers counting hours since an epoch that is a Monday    *)
(* 00:00 UTC; one hour is the grain of the stored durations (it stands for *)
(* duration_seconds' second); the end_time of a series request carries the *)
(* part of it below that grain apart (endSub).  Optional values (Go        *)
(* pointers that may be nil) are sequences of length 0 (nil) or 1.         *)
(* Strings that are concatenated by the code (user ids, idempotency keys)  *)
(* are sequences of characters.                                            *)
(***************************************************************************)
EXTENDS Integers, Sequences, FiniteSets, TLC

\* ------------------------------------------------------------------ time

\* 24 * time.Hour, in hours
DayHours == 24

\* days of a week (AddDate(0, 0, 7))
WeekDays == 7

\* store.RecurringConflictLookahead = 180 * 24 * time.Hour, in days
LookaheadDays == 180

\* the +/- 14 * 24 * time.Hour buffer of the exception window, in days
ExceptionBufferDays == 14

RecurringConflictLookahead == LookaheadDays * DayHours

\* Monday 00:00 UTC of week w, hour h of day d (0 = Monday) of week w
Monday(w) == w * WeekDays * DayHours
At(w, d, h) == Monday(w) + d * DayHours + h

Nil == <<>>
Some(x) == <<x>>
IsNil(o) == Len(o) = 0
Val(o) == o[1]

\* ------------------------------------------------------------------ zones

\* time.LoadLocation: the zones the model knows.  UTC has offset 0; the
\* zone America/New_York is at UTC-5 until its spring transition and at
\* UTC-4 from it on (02:00 local standard time on the Sunday of week 3).
KnownZones == {"UTC", "America/New_York"}
LoadLocation(tz) == tz \in KnownZones

TransitionNY == At(3, 6, 7)

\* Location.lookup: the offset in force at UTC instant t
ZoneOffset(tz, t) ==
    IF tz = "UTC" THEN 0
    ELSE IF t < TransitionNY THEN 0 - 5 ELSE 0 - 4

\* Location.lookup: do instants t and u fall in the same offset period
SamePeriod(tz, t, u) ==
    tz = "UTC" \/ ((t < TransitionNY) <=> (u < TransitionNY))

\* t.In(loc): the wall clock of instant t, as hours since the epoch's
\* local midnight
In(tz, t) == t + ZoneOffset(tz, t)

\* time.Date(y, m, d, h, ..., loc): the instant of a wall-clock reading.
\* Go looks the offset up at the reading taken as UTC and corrects it when
\* the resulting instant lies in another offset period.
DateIn(tz, local) ==
    LET guess == ZoneOffset(tz, local)
        utc == local - guess
        offset == IF guess # 0 /\ ~SamePeriod(tz, local, utc)
                  THEN ZoneOffset(tz, utc) ELSE guess
    IN local - offset

\* calendar day number and time of day of a wall-clock reading
DayOf(local) == local \div DayHours
TimeOfDay(local) == local % DayHours

\* t.Weekday(): Sunday = 0, Monday = 1, ... Saturday = 6
GoWeekday(local) == (DayOf(local) + 1) % WeekDays

\* mondayDateUTC: UTC midnight of the Monday on or before the local date
mondayDateUTC(local) ==
    LET wd == GoWeekday(local)
        offset == IF wd = 0 THEN 6 ELSE wd - 1
    IN (DayOf(local) - offset) * DayHours

weekdayOffsetFromMonday(weekday) == IF weekday = 7 THEN 6 ELSE weekday - 1

\* ------------------------------------------------------------------ recurrence engine

Digits == <<"0", "1", "2", "3", "4", "5", "6", "7", "8", "9">>

RECURSIVE FormatNat(_)
FormatNat(n) ==
    IF n < 10 THEN <<Digits[n + 1]>>
    ELSE Append(FormatNat(n \div 10), Digits[(n % 10) + 1])

\* the last decimal digit in place of the whole number
FormatIntLastDigit(n) == <<Digits[(n % 10) + 1]>>

\* strconv.FormatInt(n, 10)
FormatInt(n) == IF n < 0 THEN <<"-">> \o FormatNat(0 - n) ELSE FormatNat(n)

\* the members of a finite set of integers, ascending
Ascending(E) ==
    [i \in 1..Cardinality(E) |->
        CHOOSE k \in E : Cardinality({j \in E : j < k}) = i - 1]

\* the weekday loop of GenerateWeeklyOccurrences: keeps the first of equal
\* weekdays, in input order
DedupWeekdays(in) ==
    LET first == {i \in 1..Len(in) : \A j \in 1..(i - 1) : in[j] # in[i]}
        order == Ascending(first)
    IN  [i \in 1..Len(order) |-> in[order[i]]]

\* the weekdays left in the order they were given
SortWeekdaysNone(s) == s

\* sort.Slice(weekdays, less) on distinct integers: ascending order
SortWeekdays(s) ==
    LET order == Ascending({s[i] : i \in 1..Len(s)})
    IN  [i \in 1..Len(s) |-> order[i]]

\* the candidate start of weekday wd in the week whose Monday is weekMonday:
\* the date of that day with dtstart's local time of day, in the zone
CandidateStart(tz, dtstartLocal, weekMonday, wd) ==
    DateIn(tz, weekMonday + weekdayOffsetFromMonday(wd) * DayHours
               + TimeOfDay(dtstartLocal))

\* number of first-week candidates that start before dtstart
SkippedInFirstWeek(tz, dtstartUTC, dtstartLocal, startWeekMonday, weekdays) ==
    Cardinality({i \in 1..Len(weekdays) :
        CandidateStart(tz, dtstartLocal, startWeekMonday, weekdays[i]) < dtstartUTC})

\* first scanned week: the selected week at or before the week of windowStart
StartWeekIndex(windowStartWeekMonday, startWeekMonday, interval) ==
    IF windowStartWeekMonday > startWeekMonday
    THEN LET daysDiff == (windowStartWeekMonday - startWeekMonday) \div DayHours
         IN daysDiff \div (WeekDays * interval)
    ELSE 0

\* is an occurrence [startUTC, endUTC) emitted for the window
InWindow(startUTC, endUTC, windowStart, windowEnd) ==
    startUTC < windowEnd /\ endUTC > windowStart

\* the week loop of GenerateWeeklyOccurrences.  The candidates are numbered
\* in scan order: candidate k is weekday k % n of scanned week k \div n.  The
\* outer loop ends at the first week whose Monday is not before the week
\* boundary; the first candidate that is past until, or whose global index
\* reaches count, returns what was appended so far.
WeekScan(c, startWeekIndex) ==
    LET n == Len(c.weekdays)
        step == c.interval * WeekDays * DayHours
        firstMonday == c.startWeekMonday + startWeekIndex * step
        weeks == IF firstMonday < c.windowEndWeekBoundary
                 THEN ((c.windowEndWeekBoundary - firstMonday - 1) \div step) + 1
                 ELSE 0
        weekIndex(k) == startWeekIndex + (k \div n)
        weekdayIndex(k) == k % n
        startUTC(k) ==
            CandidateStart(c.tz, c.dtstartLocal,
                           c.startWeekMonday + weekIndex(k) * step,
                           c.weekdays[weekdayIndex(k) + 1])
        globalIndex(k) == weekIndex(k) * n + weekdayIndex(k) - c.skippedInFirstWeek
        returns(k) ==
            /\ ~(startUTC(k) < c.dtstartUTC)
            /\ \/ ~IsNil(c.until) /\ startUTC(k) > Val(c.until)
               \/ ~IsNil(c.count) /\ Val(c.count) >= 0 /\ globalIndex(k) >= Val(c.count)
        returning == {k \in 0..(weeks * n - 1) : returns(k)}
        scanned == IF returning = {} THEN weeks * n
                   ELSE CHOOSE k \in returning : \A j \in returning : k <= j
        appended == {k \in 0..(scanned - 1) :
                        /\ ~(startUTC(k) < c.dtstartUTC)
                        /\ InWindow(startUTC(k), startUTC(k) + c.duration,
                                    c.windowStart, c.windowEnd)}
        order == Ascending(appended)
    IN  [i \in 1..Len(order) |->
            [id |-> FormatInt(startUTC(order[i])),
             series_id |-> c.series.id,
             user |-> c.series.user,
             title |-> c.series.title,
             notes |-> c.series.notes,
             start |-> startUTC(order[i]),
             end |-> startUTC(order[i]) + c.duration]]

GenError(msg) == [err |-> msg, occs |-> <<>>]

\* what GenerateWeeklyOccurrences has computed when it enters the week loop
ScanContext(series, windowStart, windowEnd) ==
    LET tz == series.timezone
        dtstartLocal == In(tz, series.dtstart)
        weekdays == SortWeekdays(DedupWeekdays(series.byweekday))
        interval == IF series.interval < 1 THEN 1 ELSE series.interval
        startWeekMonday == mondayDateUTC(dtstartLocal)
    IN  [series |-> series,
         tz |-> tz,
         dtstartUTC |-> series.dtstart,
         dtstartLocal |-> dtstartLocal,
         duration |-> series.duration,
         weekdays |-> weekdays,
         interval |-> interval,
         until |-> series.until,
         count |-> series.count,
         windowStart |-> windowStart,
         windowEnd |-> windowEnd,
         startWeekMonday |-> startWeekMonday,
         windowEndWeekBoundary |->
             mondayDateUTC(In(tz, windowEnd)) + WeekDays * DayHours,
         skippedInFirstWeek |->
             SkippedInFirstWeek(tz, series.dtstart, dtstartLocal,
                                startWeekMonday, weekdays)]

\* the week index the loop starts at
FirstWeekIndex(c) ==
    StartWeekIndex(mondayDateUTC(In(c.tz, c.windowStart)), c.startWeekMonday, c.interval)

\* the validation without the check of the duration
ValidateEngineSeriesAnyDuration(series) ==
    IF series.frequency # "weekly" THEN "unsupported recurrence frequency"
    ELSE IF ~LoadLocation(series.timezone) THEN "invalid time_zone"
    ELSE IF \E i \in 1..Len(series.byweekday) :
              series.byweekday[i] < 1 \/ series.byweekday[i] > 7
    THEN "invalid weekday"
    ELSE IF Len(series.byweekday) = 0
    THEN "at least one weekday is required"
    ELSE "nil"

\* the validation of GenerateWeeklyOccurrences: the error, "nil" when the
\* series passes
ValidateEngineSeries(series) ==
    IF series.frequency # "weekly" THEN "unsupported recurrence frequency"
    ELSE IF series.duration <= 0 THEN "invalid duration"
    ELSE IF ~LoadLocation(series.timezone) THEN "invalid time_zone"
    ELSE IF \E i \in 1..Len(series.byweekday) :
              series.byweekday[i] < 1 \/ series.byweekday[i] > 7
    THEN "invalid weekday"
    ELSE IF Len(series.byweekday) = 0
    THEN "at least one weekday is required"
    ELSE "nil"

\* the week loop of the call
WeekLoop(c) == WeekScan(c, FirstWeekIndex(c))

\* domain.GenerateWeeklyOccurrences: [err, occs]; err = "nil" on success
GenerateWeeklyOccurrences(series, windowStart, windowEnd) ==
    IF ValidateEngineSeries(series) # "nil"
    THEN GenError(ValidateEngineSeries(series))
    ELSE [err |-> "nil", occs |-> WeekLoop(ScanContext(series, windowStart, windowEnd))]

\* ------------------------------------------------------------------ the week loop, week by week

\* a loop whose week does not advance
WeekStepNone(c) == 0

\* the distance between two scanned weeks: AddDate(0, 0, interval*7) per
\* unit of weekIndex
WeekStep(c) == c.interval * WeekDays * DayHours

\* weekStartMondayUTC of an iteration
WeekMonday(c, weekIndex) == c.startWeekMonday + weekIndex * WeekStep(c)

\* the loop condition: the iteration breaks when its Monday is not before
\* the week boundary
WeekBreaks(c, weekIndex) == ~(WeekMonday(c, weekIndex) < c.windowEndWeekBoundary)

\* the weekday loop of one iteration: the occurrences it appends, and
\* whether it returns because a candidate is past until ("until") or its
\* global index reaches count ("count"), "" when it runs to its end
WeekBody(c, weekIndex) ==
    LET n == Len(c.weekdays)
        startUTC(j) == CandidateStart(c.tz, c.dtstartLocal, WeekMonday(c, weekIndex),
                                      c.weekdays[j])
        pastUntil(j) == ~IsNil(c.until) /\ startUTC(j) > Val(c.until)
        capped(j) ==
            /\ ~IsNil(c.count)
            /\ Val(c.count) >= 0
            /\ weekIndex * n + (j - 1) - c.skippedInFirstWeek >= Val(c.count)
        considered(j) == ~(startUTC(j) < c.dtstartUTC)
        returning == {j \in 1..n : considered(j) /\ (pastUntil(j) \/ capped(j))}
        last == IF returning = {} THEN n
                ELSE (CHOOSE j \in returning : \A k \in returning : j <= k) - 1
        appended == {j \in 1..last :
                        /\ considered(j)
                        /\ InWindow(startUTC(j), startUTC(j) + c.duration,
                                    c.windowStart, c.windowEnd)}
        order == Ascending(appended)
    IN  [occs |-> [i \in 1..Len(order) |->
                     [id |-> FormatInt(startUTC(order[i])),
                      series_id |-> c.series.id,
                      user |-> c.series.user,
                      title |-> c.series.title,
                      notes |-> c.series.notes,
                      start |-> startUTC(order[i]),
                      end |-> startUTC(order[i]) + c.duration]],
         stop |-> IF returning = {} THEN ""
                  ELSE IF pastUntil(last + 1) THEN "until" ELSE "count"]

\* ------------------------------------------------------------------ strings and ids

\* strings.TrimSpace on a sequence of characters
TrimSpace(s) ==
    LET inked == {i \in 1..Len(s) : s[i] # " "}
    IN  IF inked = {} THEN <<>>
        ELSE SubSeq(s, CHOOSE i \in inked : \A j \in inked : i <= j,
                       CHOOSE i \in inked : \A j \in inked : i >= j)

\* uuid.Nil
NilID == <<"nil">>

\* uuid.NewSHA1(uuid.NameSpaceOID, name): a name-based id, one per name
NewSHA1(name) == <<"sha1", name>>

\* an id derived from the user alone
DeriveIDUserOnly(user, key) ==
    NewSHA1(<<"schedula:create_appointment:">> \o user)

\* the id Service.Create derives from (user, key)
DeriveID(user, key) ==
    NewSHA1(<<"schedula:create_appointment:">> \o user \o <<":">> \o key)

\* uuid.NewV7(): the n-th time-ordered random id
NewV7(n) == <<"v7", n>>

\* code points of the characters user ids are made of
CharCode(ch) ==
    CASE ch = "a" -> 97 [] ch = "b" -> 98 [] ch = "c" -> 99 [] ch = ":" -> 58
      [] OTHER -> 32

RECURSIVE CharSum(_)
CharSum(s) == IF s = <<>> THEN 0 ELSE CharCode(Head(s)) + CharSum(Tail(s))

\* hashtext(user_id): the 32-bit key of the advisory lock (a hash of the
\* characters; the sums of the model's user ids stay far below 2^31)
hashtext(user) == CharSum(user)

\* ------------------------------------------------------------------ errors

ErrNone == "nil"
ErrConflict == "conflict"
ErrNotFound == "not found"
ErrIdempotencyConflict == "idempotency key conflict"
ErrValidation == "validation"
ErrDeadline == "context deadline exceeded"

\* SQLSTATE of the errors PostgreSQL raises
UniqueViolation == "23505"
ExclusionViolation == "23P01"
CheckViolation == "23514"
InFailedTransaction == "25P02"

\* ------------------------------------------------------------------ service layer

\* 24 * time.Hour, the longest appointment or occurrence
MaxDuration == DayHours

\* the zero time.Time, and the time.Now() of an insert
ZeroTime == "zero"
Now == "now"

\* longest idempotency key, in bytes
MaxKeyLen == 256

\* Service.Create without the check of the duration
ServiceCreateAnyDuration(in) ==
    LET title == TrimSpace(in.title)
        key == TrimSpace(in.key)
        appt == [id |-> IF key # <<>> THEN DeriveID(in.user, key) ELSE NilID,
                 user |-> in.user,
                 title |-> title,
                 notes |-> in.notes,
                 start |-> in.start,
                 end |-> in.end,
                 created |-> ZeroTime,
                 updated |-> ZeroTime]
    IN  IF title = <<>> THEN [err |-> ErrValidation, appt |-> appt]
        ELSE IF in.user = <<>> THEN [err |-> ErrValidation, appt |-> appt]
        ELSE IF in.end <= in.start THEN [err |-> ErrValidation, appt |-> appt]
        ELSE IF key # <<>> /\ Len(key) > MaxKeyLen
        THEN [err |-> ErrValidation, appt |-> appt]
        ELSE [err |-> ErrNone, appt |-> appt]

\* Service.Create: [err, appt]; the appointment handed to repo.Create
ServiceCreate(in) ==
    LET title == TrimSpace(in.title)
        key == TrimSpace(in.key)
        appt == [id |-> IF key # <<>> THEN DeriveID(in.user, key) ELSE NilID,
                 user |-> in.user,
                 title |-> title,
                 notes |-> in.notes,
                 start |-> in.start,
                 end |-> in.end,
                 created |-> ZeroTime,
                 updated |-> ZeroTime]
    IN  IF title = <<>> THEN [err |-> ErrValidation, appt |-> appt]
        ELSE IF in.user = <<>> THEN [err |-> ErrValidation, appt |-> appt]
        ELSE IF in.end <= in.start THEN [err |-> ErrValidation, appt |-> appt]
        ELSE IF in.end - in.start > MaxDuration
        THEN [err |-> ErrValidation, appt |-> appt]
        ELSE IF key # <<>> /\ Len(key) > MaxKeyLen
        THEN [err |-> ErrValidation, appt |-> appt]
        ELSE [err |-> ErrNone, appt |-> appt]

\* Service.Delete: the validation before repo.Delete
ServiceDelete(in) ==
    IF in.user = <<>> THEN ErrValidation
    ELSE IF in.id = NilID THEN ErrValidation
    ELSE ErrNone

\* the insertion sort of Service.CreateRecurringSeries, on distinct
\* integers: ascending order
InsertionSort(s) ==
    LET order == Ascending({s[i] : i \in 1..Len(s)})
    IN  [i \in 1..Len(s) |-> order[i]]

\* the horizon check without the comparison of count with what the rule yields
HorizonCheckNoCount(series, gen) ==
    IF gen.err # "nil" THEN [err |-> gen.err, series |-> series]
    ELSE IF Len(gen.occs) = 0 THEN [err |-> ErrValidation, series |-> series]
    ELSE [err |-> ErrNone, series |-> series]

\* the horizon check of Service.CreateRecurringSeries on the occurrences
\* the rule yields up to the horizon
HorizonCheck(series, gen) ==
    IF gen.err # "nil" THEN [err |-> gen.err, series |-> series]
    ELSE IF Len(gen.occs) = 0 THEN [err |-> ErrValidation, series |-> series]
    ELSE IF ~IsNil(series.count) /\ Val(series.count) > Len(gen.occs)
    THEN [err |-> ErrValidation, series |-> series]
    ELSE [err |-> ErrNone, series |-> series]

\* the end of the horizon: start + 180 days, or until when it is earlier
OccLimitEnd(start, until) ==
    IF ~IsNil(until) /\ Val(until) < start + RecurringConflictLookahead
    THEN Val(until) ELSE start + RecurringConflictLookahead

\* the checks of Service.CreateRecurringSeries on the normalized series;
\* end_time is in.end and in.endSub, the part of it below one second, which
\* the comparisons see and the duration in whole seconds drops
ValidateSeries(in, series, weekdays) ==
    LET bad == [err |-> ErrValidation, series |-> series]
    IN  IF series.title = <<>> THEN bad
        ELSE IF in.user = <<>> THEN bad
        ELSE IF series.frequency # "weekly" THEN bad
        ELSE IF series.timezone = "" THEN bad
        ELSE IF ~LoadLocation(series.timezone) THEN bad
        ELSE IF in.end < in.start \/ (in.end = in.start /\ in.endSub = 0) THEN bad
        ELSE IF \/ in.end - in.start > MaxDuration
                \/ in.end - in.start = MaxDuration /\ in.endSub > 0
        THEN bad
        ELSE IF series.interval < 1 THEN bad
        ELSE IF \E i \in 1..Len(weekdays) : weekdays[i] < 1 \/ weekdays[i] > 7 THEN bad
        ELSE IF Len(series.byweekday) = 0 THEN bad
        ELSE IF ~IsNil(in.until) /\ Val(in.until) < in.start THEN bad
        ELSE IF ~IsNil(in.count) /\ Val(in.count) < 1 THEN bad
        ELSE IF IsNil(in.until) /\ IsNil(in.count) THEN bad
        ELSE IF /\ IsNil(in.count) /\ ~IsNil(in.until)
                /\ Val(in.until) > in.start + RecurringConflictLookahead
        THEN bad
        ELSE HorizonCheck(series,
                 GenerateWeeklyOccurrences(
                     [series EXCEPT !.until = Some(OccLimitEnd(in.start, in.until)),
                                    !.count = Nil],
                     in.start,
                     OccLimitEnd(in.start, in.until) + series.duration))

\* the weekdays of the rule, or the weekday of start in the zone when the
\* rule names none
DefaultWeekdays(in) ==
    IF Len(in.byweekday) = 0 /\ LoadLocation(in.timezone)
    THEN IF GoWeekday(In(in.timezone, in.start)) = 0 THEN <<7>>
         ELSE <<GoWeekday(In(in.timezone, in.start))>>
    ELSE in.byweekday

\* the series Service.CreateRecurringSeries builds from the request
NormalizedSeries(in, weekdays) ==
    [id |-> NilID,
     user |-> in.user,
     title |-> TrimSpace(in.title),
     notes |-> in.notes,
     timezone |-> in.timezone,
     dtstart |-> in.start,
     duration |-> in.end - in.start,  \* int(end.Sub(start) / time.Second)
     frequency |-> IF in.frequency = "" THEN "weekly" ELSE in.frequency,
     interval |-> IF in.interval = 0 THEN 1 ELSE in.interval,
     byweekday |-> InsertionSort(DedupWeekdays(weekdays)),
     until |-> in.until,
     count |-> in.count]

SeriesFrom(in, weekdays) == ValidateSeries(in, NormalizedSeries(in, weekdays), weekdays)

\* Service.CreateRecurringSeries: [err, series]; the series handed to
\* repo.CreateRecurringSeries
ServiceCreateRecurringSeries(in) == SeriesFrom(in, DefaultWeekdays(in))

\* ------------------------------------------------------------------ calendar store

\* the ranges compared with both bounds inclusive, '[]'
RangesOverlapClosed(s1, e1, s2, e2) == s1 <= e2 /\ e1 >= s2

\* tstzrange(s1, e1, '[)') && tstzrange(s2, e2, '[)')
RangesOverlap(s1, e1, s2, e2) == s1 < e2 /\ e1 > s2

\* the constraint with the ranges compared by = in place of &&
ExcludedPairEqual(a, b) ==
    a.user = b.user /\ a.start = b.start /\ a.end = b.end

\* the exclusion constraint appointments_no_overlap: do rows a and b exclude
\* one another
ExcludedPair(a, b) ==
    a.user = b.user /\ RangesOverlap(a.start, a.end, b.start, b.end)

StatementOK == "00000"

\* the INSERT into a table without the primary key
InsertAppointmentNoKey(rows, m) ==
    IF ~(m.end > m.start) THEN CheckViolation
    ELSE IF \E r \in rows : ExcludedPair(r, m) THEN ExclusionViolation
    ELSE StatementOK

\* INSERT INTO appointments: the SQLSTATE PostgreSQL answers with.  The CHECK
\* is evaluated on the new tuple, then the primary-key index (created with
\* the table) and then the exclusion index (added afterwards) are updated.
InsertAppointment(rows, m) ==
    IF ~(m.end > m.start) THEN CheckViolation
    ELSE IF \E r \in rows : r.id = m.id THEN UniqueViolation
    ELSE IF \E r \in rows : ExcludedPair(r, m) THEN ExclusionViolation
    ELSE StatementOK

\* a statement sent in a transaction in which an earlier statement failed:
\* PostgreSQL has aborted the transaction and refuses every statement but
\* ROLLBACK (bun.Tx sets no savepoint around a statement)
AbortedAfter(code) == code # StatementOK

\* SELECT ... FROM appointments WHERE id = ? LIMIT 1, in a transaction whose
\* earlier statement ended with SQLSTATE code: [err, row]
SelectAppointmentByID(rows, id, code) ==
    IF AbortedAfter(code) THEN [err |-> InFailedTransaction, row |-> <<>>]
    ELSE IF ~\E r \in rows : r.id = id THEN [err |-> "no rows", row |-> <<>>]
    ELSE [err |-> ErrNone, row |-> <<CHOOSE r \in rows : r.id = id>>]

\* the payload comparison of an idempotent replay
SamePayload(existing, appt) ==
    /\ existing.user = appt.user
    /\ existing.title = appt.title
    /\ existing.notes = appt.notes
    /\ existing.start = appt.start
    /\ existing.end = appt.end

NoWrite == [kind |-> "none"]

\* the branch for 23P01 left out
ConflictCodeMissing(code) == FALSE

\* the SQLSTATE calendarTx.CreateAppointment answers ErrConflict to
ConflictCode(code) == code = ExclusionViolation

\* every inserted model given a fresh id
BeforeAppendModelFreshID(a, fresh) ==
    [a EXCEPT !.id = fresh,
              !.created = IF @ = ZeroTime THEN Now ELSE @,
              !.updated = IF @ = ZeroTime THEN Now ELSE @]

\* Appointment.BeforeAppendModel on an insert: the model gets an id when it
\* has none and the instants of creation and update when they are zero
BeforeAppendModel(a, fresh) ==
    [a EXCEPT !.id = IF @ = NilID THEN fresh ELSE @,
              !.created = IF @ = ZeroTime THEN Now ELSE @,
              !.updated = IF @ = ZeroTime THEN Now ELSE @]

\* calendarTx.CreateAppointment on the rows the transaction sees; fresh is the
\* id BeforeAppendModel gives a row that has none: [err, val, write].  The
\* row inserted is the copy m; the value returned is appt with the id of m.
CreateAppointment(rows, appt, fresh) ==
    LET m == BeforeAppendModel(appt, fresh)
        code == InsertAppointment(rows, m)
        sel == SelectAppointmentByID(rows, m.id, code)
    IN  IF code = StatementOK
        THEN [err |-> ErrNone, val |-> <<[appt EXCEPT !.id = m.id]>>,
              write |-> [kind |-> "insertAppointment", row |-> m]]
        ELSE IF ConflictCode(code)
        THEN [err |-> ErrConflict, val |-> <<>>, write |-> NoWrite]
        ELSE IF code = UniqueViolation
        THEN IF sel.err # ErrNone
             THEN [err |-> code, val |-> <<>>, write |-> NoWrite]
             ELSE IF ~SamePayload(Val(sel.row), appt)
             THEN [err |-> ErrIdempotencyConflict, val |-> <<>>, write |-> NoWrite]
             ELSE [err |-> ErrNone, val |-> sel.row, write |-> NoWrite]
        ELSE [err |-> code, val |-> <<>>, write |-> NoWrite]

\* the rows of every user that intersect the window
ListAppointmentsAnyUser(rows, user, windowStart, windowEnd) ==
    {r \in rows : r.start < windowEnd /\ r.end > windowStart}

\* calendarTx.ListAppointments (the set of rows; the order is by start)
ListAppointments(rows, user, windowStart, windowEnd) ==
    {r \in rows : r.user = user /\ r.start < windowEnd /\ r.end > windowStart}

\* the row with the id deleted whoever owns it
DeleteAppointmentAnyUser(rows, user, id) ==
    LET hit == {r \in rows : r.id = id}
    IN  IF hit = {}
        THEN [err |-> ErrNotFound, val |-> <<>>, write |-> NoWrite]
        ELSE [err |-> ErrNone, val |-> <<>>,
              write |-> [kind |-> "deleteAppointment", row |-> CHOOSE r \in hit : TRUE]]

\* calendarTx.DeleteAppointment: [err, val, write]
DeleteAppointment(rows, user, id) ==
    LET hit == {r \in rows : r.user = user /\ r.id = id}
    IN  IF hit = {}
        THEN [err |-> ErrNotFound, val |-> <<>>, write |-> NoWrite]
        ELSE [err |-> ErrNone, val |-> <<>>,
              write |-> [kind |-> "deleteAppointment", row |-> CHOOSE r \in hit : TRUE]]

\* calendarTx.ListRecurringSeries
ListRecurringSeries(seriesRows, user) == {s \in seriesRows : s.user = user}

\* calendarTx.ListRecurringExceptions
ListRecurringExceptions(exRows, seriesID, windowStart, windowEnd) ==
    {e \in exRows : /\ e.series_id = seriesID
                    /\ e.occurrence_start >= windowStart
                    /\ e.occurrence_start < windowEnd}

\* applyRecurringExceptions: one occurrence after the exceptions; <<>> when
\* it is dropped
ApplyException(o, exs, windowStart, windowEnd) ==
    IF ~\E e \in exs : e.occurrence_start = o.start THEN <<o>>
    ELSE
      LET ex == CHOOSE e \in exs : e.occurrence_start = o.start
          start == IF ~IsNil(ex.override_start) THEN Val(ex.override_start) ELSE o.start
          end == IF ~IsNil(ex.override_end) THEN Val(ex.override_end) ELSE o.end
          title == IF ~IsNil(ex.override_title) THEN Val(ex.override_title) ELSE o.title
          notes == IF ~IsNil(ex.override_notes) THEN Val(ex.override_notes) ELSE o.notes
      IN  IF ex.kind = "skip" THEN <<>>
          ELSE IF start < windowEnd /\ end > windowStart
          THEN <<[id |-> o.id, series_id |-> o.series_id, user |-> o.user,
                  title |-> title, notes |-> notes, start |-> start, end |-> end]>>
          ELSE <<>>

\* the occurrences that remain, last first
ApplyLoopReversed(occs, exs, windowStart, windowEnd) ==
    LET kept == {i \in 1..Len(occs) :
                    ApplyException(occs[i], exs, windowStart, windowEnd) # <<>>}
        order == Ascending(kept)
    IN  [i \in 1..Len(order) |->
            ApplyException(occs[order[Len(order) + 1 - i]], exs, windowStart, windowEnd)[1]]

\* the loop of applyRecurringExceptions: the occurrences that remain, in
\* input order
ApplyLoop(occs, exs, windowStart, windowEnd) ==
    LET kept == {i \in 1..Len(occs) :
                    ApplyException(occs[i], exs, windowStart, windowEnd) # <<>>}
        order == Ascending(kept)
    IN  [i \in 1..Len(order) |->
            ApplyException(occs[order[i]], exs, windowStart, windowEnd)[1]]

\* the occurrences returned as they came
applyRecurringExceptionsNone(occs, exs, windowStart, windowEnd) == occs

\* applyRecurringExceptions
applyRecurringExceptions(occs, exs, windowStart, windowEnd) ==
    IF exs = {} THEN occs ELSE ApplyLoop(occs, exs, windowStart, windowEnd)

\* calendarTx.UpsertRecurringException: INSERT ... ON CONFLICT (series_id,
\* occurrence_start) DO UPDATE
UpsertRecurringException(exRows, ex) ==
    {e \in exRows : ~(e.series_id = ex.series_id
                      /\ e.occurrence_start = ex.occurrence_start)} \cup {ex}

\* sort.Slice(occs, by StartTime): element i goes after the elements that
\* start before it (and after the equal ones that precede it)
SortByStart(s) ==
    LET rank(i) == Cardinality({j \in 1..Len(s) :
                        \/ s[j].start < s[i].start
                        \/ s[j].start = s[i].start /\ j < i}) + 1
    IN  [r \in 1..Len(s) |-> s[CHOOSE i \in 1..Len(s) : rank(i) = r]]

\* the last instant the conflict check expands the new series to
ConflictWindowEnd(series) ==
    LET lookaheadEnd == series.dtstart + RecurringConflictLookahead
        windowEnd == IF ~IsNil(series.until) /\ Val(series.until) < lookaheadEnd
                     THEN Val(series.until) ELSE lookaheadEnd
    IN windowEnd + series.duration

\* the start and end of every occurrence of a sequence
Spans(occs) == {[start |-> occs[i].start, end |-> occs[i].end] : i \in 1..Len(occs)}

\* the occurrences of a stored series after its exceptions, as the conflict
\* check and ListOccurrences load them; occs are the generated occurrences
AdjustedOccurrences(exRows, seriesID, occs, windowStart, windowEnd) ==
    IF Len(occs) = 0 THEN <<>>
    ELSE applyRecurringExceptions(occs,
             ListRecurringExceptions(exRows, seriesID,
                 windowStart - ExceptionBufferDays * DayHours,
                 windowEnd + ExceptionBufferDays * DayHours),
             windowStart, windowEnd)

\* the occurrences of the stored series s the conflict check compares with
ExistingSeriesSpans(db, s, windowStart, windowEnd) ==
    Spans(AdjustedOccurrences(db.exceptions, s.id,
              GenerateWeeklyOccurrences(s, windowStart, windowEnd).occs,
              windowStart, windowEnd))

\* the spans of the user's calendar the conflict check compares with
ExistingSpans(db, user, windowStart, windowEnd) ==
    {[start |-> a.start, end |-> a.end] :
        a \in ListAppointments(db.appts, user, windowStart, windowEnd)}
    \cup UNION {ExistingSeriesSpans(db, s, windowStart, windowEnd) :
                  s \in ListRecurringSeries(db.series, user)}

\* the last loop with <= and >= in place of Before and After
CheckAgainstExistingClosed(newOccs, existing) ==
    IF \E i \in 1..Len(newOccs) : \E e \in existing :
          newOccs[i].start <= e.end /\ newOccs[i].end >= e.start
    THEN ErrConflict
    ELSE ErrNone

\* the last loop of ensureNoRecurringSeriesConflicts
CheckAgainstExisting(newOccs, existing) ==
    IF \E i \in 1..Len(newOccs) : \E e \in existing :
          newOccs[i].start < e.end /\ newOccs[i].end > e.start
    THEN ErrConflict
    ELSE ErrNone

\* ensureNoRecurringSeriesConflicts from the sorted new occurrences on
CheckNewOccurrences(db, series, newOccs) ==
    IF Len(newOccs) = 0 THEN ErrNone
    ELSE IF \E i \in 2..Len(newOccs) : newOccs[i - 1].end > newOccs[i].start
    THEN ErrConflict
    ELSE CheckAgainstExisting(newOccs,
             ExistingSpans(db, series.user, series.dtstart, newOccs[Len(newOccs)].end))

CheckGenerated(db, series, gen) ==
    IF gen.err # "nil" THEN gen.err
    ELSE CheckNewOccurrences(db, series, SortByStart(gen.occs))

\* ensureNoRecurringSeriesConflicts: the error it returns
ensureNoRecurringSeriesConflicts(db, series) ==
    CheckGenerated(db, series,
        GenerateWeeklyOccurrences(series, series.dtstart, ConflictWindowEnd(series)))

\* calendarTx.CreateRecurringSeries; fresh is the id BeforeAppendModel gives
InsertSeries(series, fresh) ==
    IF series.id = NilID THEN [series EXCEPT !.id = fresh] ELSE series

SeriesResult(err, m) ==
    IF err # ErrNone THEN [err |-> err, val |-> <<>>, write |-> NoWrite]
    ELSE [err |-> ErrNone, val |-> <<m>>, write |-> [kind |-> "insertSeries", row |-> m]]

\* the function AppointmentRepo.CreateRecurringSeries runs in the user's
\* transaction: the conflict check, then calendarTx.CreateRecurringSeries
CreateRecurringSeries(db, series, fresh) ==
    SeriesResult(ensureNoRecurringSeriesConflicts(db, series), InsertSeries(series, fresh))

\* ------------------------------------------------------------------ requests

\* server tasks that handle one RPC at a time (any number of instances)
NumProcs == 2

\* requests submitted in one behaviour
MaxOps == 3

Procs == 1..NumProcs

UserA == <<"a">>
UserB == <<"a", ":", "b">>
Users == {UserA, UserB}

NoKey == <<>>
KeyC == <<"c">>
KeyBC == <<"b", ":", "c">>
KeyPadded == <<" ", "c", " ">>

TitleT == <<"t">>
TitleD == <<"d">>

\* Monday of week 1, 09:00-10:00, the hour after it, and both hours
SlotA == [start |-> At(1, 0, 9), end |-> At(1, 0, 10)]
SlotB == [start |-> At(1, 0, 10), end |-> At(1, 0, 11)]
SlotAB == [start |-> At(1, 0, 9), end |-> At(1, 0, 11)]

ApptInput(user, key, title, slot) ==
    [user |-> user, key |-> key, title |-> title, notes |-> <<>>,
     start |-> slot.start, end |-> slot.end]

\* the CreateAppointment requests clients send
ApptInputs ==
    {ApptInput(UserA, NoKey, TitleT, sl) : sl \in {SlotA, SlotB, SlotAB}}
    \cup {ApptInput(UserA, KeyC, TitleT, SlotA), ApptInput(UserA, KeyPadded, TitleD, SlotA)}
    \cup {ApptInput(UserA, KeyC, TitleT, SlotAB),
          ApptInput(UserA, KeyBC, TitleT, SlotA),
          ApptInput(UserB, KeyC, TitleT, SlotA),
          ApptInput(UserB, NoKey, TitleT, SlotA),
          ApptInput(UserA, NoKey, TitleT, [start |-> At(1, 0, 10), end |-> At(1, 0, 10)])}

SeriesInput(user, start, hours, weekdays, count) ==
    [user |-> user, title |-> TitleT, notes |-> <<>>,
     start |-> start, end |-> start + hours, endSub |-> 0,
     frequency |-> "weekly", interval |-> 1, byweekday |-> weekdays,
     until |-> Nil, count |-> Some(count), timezone |-> "UTC"]

\* the CreateRecurringSeries requests clients send: Mondays 09:00 twice and
\* once, Monday 10:00 once, Sundays 23:00-01:00 twice, and the Monday 00:00
\* that follows the first of those Sundays
SeriesInputs ==
    {SeriesInput(UserA, At(1, 0, 9), 1, <<1>>, 2),
     SeriesInput(UserA, At(1, 0, 9), 1, <<1>>, 1),
     SeriesInput(UserA, At(1, 0, 10), 1, <<1, 1>>, 1),
     SeriesInput(UserA, At(1, 6, 23), 2, <<7>>, 2),
     SeriesInput(UserA, At(2, 0, 0), 1, <<>>, 1)}

VARIABLES
    appts,       \* committed rows of table appointments
    series,      \* committed rows of table recurring_series
    exceptions,  \* committed rows of table recurring_exceptions
    pc,          \* per task: idle, waiting, locked, executed, done
    req,         \* per task: the request it handles
    res,         \* per task: what the handler returned
    pend,        \* per task: the uncommitted write of its transaction
    locks,       \* advisory locks held: [key, holder]
    nextId,      \* ids uuid.NewV7 has handed out
    ops,         \* requests submitted
    seqDB,       \* the calendar as the finished requests build it one at a time
    lin,         \* every finished request answered as it would have alone
    conc,        \* pairs of tasks whose current requests were in flight together
    call         \* the last call of a read-only function: its inputs and its result

vars == <<appts, series, exceptions, pc, req, res, pend, locks, nextId, ops, seqDB, lin,
          conc, call>>

NoReq == [op |-> "none", arg |-> <<>>, fresh |-> NilID]
NoRes == [err |-> ErrNone, val |-> <<>>]
NoCall == [fn |-> "none"]

DB == [appts |-> appts, series |-> series, exceptions |-> exceptions]

\* the user whose calendar a request writes
ReqUser(r) == r.arg.user

\* the function a request runs inside its transaction, on the rows it sees
RunTx(db, r) ==
    CASE r.op = "CreateAppointment" -> CreateAppointment(db.appts, r.arg, r.fresh)
      [] r.op = "CreateRecurringSeries" -> CreateRecurringSeries(db, r.arg, r.fresh)
      [] r.op = "DeleteAppointment" -> DeleteAppointment(db.appts, r.arg.user, r.arg.id)

\* the tables after a write becomes visible
ApplyWrite(db, w) ==
    CASE w.kind = "insertAppointment" -> [db EXCEPT !.appts = @ \cup {w.row}]
      [] w.kind = "deleteAppointment" -> [db EXCEPT !.appts = @ \ {w.row}]
      [] w.kind = "insertSeries" -> [db EXCEPT !.series = @ \cup {w.row}]
      [] OTHER -> db

Init ==
    /\ appts = {}
    /\ series = {}
    /\ exceptions = {}
    /\ pc = [p \in Procs |-> "idle"]
    /\ req = [p \in Procs |-> NoReq]
    /\ res = [p \in Procs |-> NoRes]
    /\ pend = [p \in Procs |-> NoWrite]
    /\ locks = {}
    /\ nextId = 1
    /\ ops = 0
    /\ seqDB = [appts |-> {}, series |-> {}]
    /\ lin = TRUE
    /\ conc = {}
    /\ call = NoCall

\* the task is between the start of its transaction and its end
InFlight(p) == pc[p] \in {"waiting", "locked", "executed"}

\* a handler is entered: the service validates and either answers at once or
\* calls the repository, which begins a transaction
Enter(p, r, err) ==
    /\ pc[p] \in {"idle", "done"}
    /\ ops < MaxOps
    /\ ops' = ops + 1
    /\ pend' = [pend EXCEPT ![p] = NoWrite]
    /\ IF err = ErrNone
       THEN /\ pc' = [pc EXCEPT ![p] = "waiting"]
            /\ req' = [req EXCEPT ![p] = r]
            /\ res' = [res EXCEPT ![p] = NoRes]
       ELSE /\ pc' = [pc EXCEPT ![p] = "done"]
            /\ req' = [req EXCEPT ![p] = r]
            /\ res' = [res EXCEPT ![p] = [err |-> err, val |-> <<>>]]
    /\ conc' = {c \in conc : p \notin c}
                \cup IF err = ErrNone
                     THEN {{p, q} : q \in {o \in Procs \ {p} : InFlight(o)}}
                     ELSE {}
    /\ UNCHANGED <<appts, series, exceptions, locks, nextId, seqDB, lin, call>>

\* Service.Create
SubmitCreateAppointment(p) ==
    \E in \in ApptInputs :
        LET out == ServiceCreate(in)
        IN Enter(p, [op |-> "CreateAppointment", arg |-> out.appt, fresh |-> NilID,
                     key |-> in.key],
                 out.err)

\* Service.CreateRecurringSeries
SubmitCreateRecurringSeries(p) ==
    \E in \in SeriesInputs :
        LET out == ServiceCreateRecurringSeries(in)
        IN Enter(p, [op |-> "CreateRecurringSeries", arg |-> out.series, fresh |-> NilID],
                 out.err)

\* the ids a client can ask to delete: ids it was given, or derives
DeleteIds == {a.id : a \in appts} \cup {DeriveID(UserA, KeyC)}

\* Service.Delete
SubmitDeleteAppointment(p) ==
    \E user \in Users, id \in DeleteIds :
        LET in == [user |-> user, id |-> id]
        IN Enter(p, [op |-> "DeleteAppointment", arg |-> in, fresh |-> NilID],
                 ServiceDelete(in))

\* the transaction without lockUserCalendar: nothing to wait for
LockNeverTaken(key, p) == TRUE

\* may the task take the advisory lock with this key
LockFree(key, p) == ~\E l \in locks : l.key = key /\ l.holder # p

\* lockUserCalendar: SELECT pg_advisory_xact_lock(hashtext(user_id))
AcquireLock(p) ==
    /\ pc[p] = "waiting"
    /\ LockFree(hashtext(ReqUser(req[p])), p)
    /\ locks' = locks \cup {[key |-> hashtext(ReqUser(req[p])), holder |-> p]}
    /\ pc' = [pc EXCEPT ![p] = "locked"]
    /\ UNCHANGED <<appts, series, exceptions, req, res, pend, nextId, ops, seqDB, lin, conc,
                   call>>

\* an INSERT waits while another transaction has an uncommitted write on a
\* row with the same id or an excluded range
InsertWaits(p) ==
    /\ req[p].op = "CreateAppointment"
    /\ \E q \in Procs \ {p} :
          /\ pend[q].kind \in {"insertAppointment", "deleteAppointment"}
          /\ \/ pend[q].row.id = req[p].arg.id
             \/ ExcludedPair(pend[q].row, req[p].arg)

\* does the request draw a fresh id when it inserts
DrawsID(r) == r.op # "DeleteAppointment" /\ r.arg.id = NilID

SeqView == [appts |-> seqDB.appts, series |-> seqDB.series, exceptions |-> exceptions]

Replayed(answer, seq, after) ==
    /\ seqDB' = [appts |-> after.appts, series |-> after.series]
    /\ lin' = (lin /\ seq.err = answer.err /\ seq.val = answer.val)

ReplayResult(answer, seq) == Replayed(answer, seq, ApplyWrite(SeqView, seq.write))

\* the request is run alone on the calendar the finished requests built, and
\* its answer compared with the answer given
Replay(r, answer) == ReplayResult(answer, RunTx(SeqView, r))

\* the answer of the function and its uncommitted write are kept; a request
\* that fails takes its place in the order here, one that succeeds when it
\* commits
Executed(p, r, out) ==
    /\ req' = [req EXCEPT ![p] = r]
    /\ res' = [res EXCEPT ![p] = [err |-> out.err, val |-> out.val]]
    /\ pend' = [pend EXCEPT ![p] = out.write]
    /\ nextId' = IF DrawsID(r) THEN nextId + 1 ELSE nextId
    /\ IF out.err # ErrNone
       THEN Replay(r, out)
       ELSE UNCHANGED <<seqDB, lin>>

ExecRequest(p, r) == Executed(p, r, RunTx(DB, r))

\* the function passed to InUserTransaction runs, under the lock
Exec(p) ==
    /\ pc[p] = "locked"
    /\ ~InsertWaits(p)
    /\ ExecRequest(p, [req[p] EXCEPT
                         !.fresh = IF DrawsID(req[p]) THEN NewV7(nextId) ELSE NilID])
    /\ pc' = [pc EXCEPT ![p] = "executed"]
    /\ UNCHANGED <<appts, series, exceptions, locks, ops, conc, call>>

\* every advisory lock dropped when one transaction ends
ReleaseAll(p) == {}

\* the advisory locks outlive the transaction
ReleaseKept(p) == locks

\* the end of a transaction releases the advisory locks it took
Release(p) == {l \in locks : l.holder # p}

\* RunInTx: the function returned nil, the transaction commits
Commit(p) ==
    /\ pc[p] = "executed"
    /\ res[p].err = ErrNone
    /\ appts' = ApplyWrite(DB, pend[p]).appts
    /\ series' = ApplyWrite(DB, pend[p]).series
    /\ Replay(req[p], res[p])
    /\ pend' = [pend EXCEPT ![p] = NoWrite]
    /\ locks' = Release(p)
    /\ pc' = [pc EXCEPT ![p] = "done"]
    /\ UNCHANGED <<exceptions, req, res, nextId, ops, conc, call>>

\* RunInTx: the function returned an error, the transaction rolls back
Rollback(p) ==
    /\ pc[p] = "executed"
    /\ res[p].err # ErrNone
    /\ pend' = [pend EXCEPT ![p] = NoWrite]
    /\ locks' = Release(p)
    /\ pc' = [pc EXCEPT ![p] = "done"]
    /\ UNCHANGED <<appts, series, exceptions, req, res, nextId, ops, seqDB, lin, conc,
                   call>>

\* the request's deadline passes while it waits for or holds the lock: the
\* statement in flight fails and the transaction rolls back
Cancel(p) ==
    /\ pc[p] \in {"waiting", "locked", "executed"}
    /\ res' = [res EXCEPT ![p] = [err |-> ErrDeadline, val |-> <<>>]]
    /\ pend' = [pend EXCEPT ![p] = NoWrite]
    /\ locks' = Release(p)
    /\ pc' = [pc EXCEPT ![p] = "done"]
    /\ UNCHANGED <<appts, series, exceptions, req, nextId, ops, seqDB, lin, conc, call>>

Next ==
    \E p \in Procs :
        \/ SubmitCreateAppointment(p)
        \/ SubmitCreateRecurringSeries(p)
        \/ SubmitDeleteAppointment(p)
        \/ AcquireLock(p)
        \/ Exec(p)
        \/ Commit(p)
        \/ Rollback(p)
        \/ Cancel(p)

Spec == Init /\ [][Next]_vars

\* ------------------------------------------------------------------ exceptions
\* No RPC writes recurring_exceptions; a caller of the store does, through
\* InUserTransaction and CalendarTx.UpsertRecurringException.

\* the exceptions such a caller writes for a stored series: its first
\* occurrence is skipped, or moved one hour later
ExceptionInputs(s) ==
    {[series_id |-> s.id, occurrence_start |-> s.dtstart, kind |-> "skip",
      override_start |-> Nil, override_end |-> Nil,
      override_title |-> Nil, override_notes |-> Nil],
     [series_id |-> s.id, occurrence_start |-> s.dtstart, kind |-> "override",
      override_start |-> Some(s.dtstart + 1), override_end |-> Some(s.dtstart + 1 + s.duration),
      override_title |-> Nil, override_notes |-> Nil]}

\* InUserTransaction(owner, tx.UpsertRecurringException), from lock to commit
WriteException ==
    \E s \in series : \E ex \in ExceptionInputs(s) :
        /\ LockFree(hashtext(s.user), 0)
        /\ ex \notin exceptions
        /\ exceptions' = UpsertRecurringException(exceptions, ex)
        /\ UNCHANGED <<appts, series, pc, req, res, pend, locks, nextId, ops, seqDB, lin,
                       conc, call>>

NextEx == Next \/ WriteException

SpecEx == Init /\ [][NextEx]_vars

\* ------------------------------------------------------------------ a third user

\* a user id other than a:b to which hashtext gives the key it gives a:b
\* (hashtext has 2^32 values, user ids are unbounded strings)
UserC == <<"b", ":", "a">>

\* Service.Create for the third user
SubmitCreateAppointmentOther(p) ==
    LET in == ApptInput(UserC, NoKey, TitleT, SlotA)
        out == ServiceCreate(in)
    IN Enter(p, [op |-> "CreateAppointment", arg |-> out.appt, fresh |-> NilID,
                 key |-> in.key],
             out.err)

NextLock == Next \/ \E p \in Procs : SubmitCreateAppointmentOther(p)

SpecLock == Init /\ [][NextLock]_vars

\* ------------------------------------------------------------------ scheduling
\* A transaction that can take a step takes it: the statement in flight is
\* run by the server, and RunInTx commits or rolls back when the function
\* returns. pg_advisory_xact_lock queues its waiters, so a waiter that can
\* take the lock again and again gets it. Nothing obliges a deadline to pass.
Fairness ==
    \A p \in Procs :
        /\ SF_vars(AcquireLock(p))
        /\ WF_vars(Exec(p))
        /\ WF_vars(Commit(p))
        /\ WF_vars(Rollback(p))

\* InUserTransaction is the one way into a write, whatever the write is; the
\* scheduling of the lock is followed on the appointment writes
NextLive ==
    \E p \in Procs :
        \/ SubmitCreateAppointment(p)
        \/ SubmitDeleteAppointment(p)
        \/ AcquireLock(p)
        \/ Exec(p)
        \/ Commit(p)
        \/ Rollback(p)
        \/ Cancel(p)

SpecLive == Init /\ [][NextLive]_vars /\ Fairness

\* ------------------------------------------------------------------ read-only calls
\* The recurrence engine, the exception merger and the list operations
\* write no row.  One call is followed: it is recorded with its inputs and
\* its result.

tables == <<appts, series, exceptions, pc, req, res, pend, locks, nextId, ops, seqDB, lin,
            conc>>

EngineSeries(tz, dtstart, hours, interval, weekdays, until, count) ==
    [id |-> NewV7(1), user |-> UserA, title |-> TitleT, notes |-> <<>>,
     timezone |-> tz, dtstart |-> dtstart, duration |-> hours,
     frequency |-> "weekly", interval |-> interval, byweekday |-> weekdays,
     until |-> until, count |-> count]

\* the series the engine is called with: in UTC, from Monday 09:00, Wednesday
\* 09:00 or Sunday 23:00 of week 1, one or two hours long, every week (also
\* given as interval 0) or every other week, on Mondays, on Sundays or on
\* <<3, 1, 3>>, open-ended, until Sunday 23:00 of week 2 or for two
\* occurrences; in New York, Sundays from week 2 at 02:00 or at 09:00 local
\* time, open-ended or for three occurrences
EngineSeriesInputs ==
    {EngineSeries("UTC", d, h, i, w, u, c) :
        d \in {At(1, 0, 9), At(1, 2, 9), At(1, 6, 23)},
        h \in {1, 2},
        i \in {0, 1, 2},
        w \in {<<1>>, <<7>>, <<3, 1, 3>>},
        u \in {Nil, Some(At(2, 6, 23))},
        c \in {Nil, Some(2)}}
    \cup {EngineSeries("America/New_York", d, 1, 1, <<7>>, Nil, c) :
        d \in {At(2, 6, 7), At(2, 6, 14)},
        c \in {Nil, Some(3)}}

\* the windows [start, end) of a call
Windows ==
    {[start |-> At(1, 0, 0), end |-> At(3, 0, 0)],
     [start |-> At(1, 0, 10), end |-> At(1, 0, 11)],
     [start |-> At(1, 0, 9), end |-> At(6, 0, 0)],
     [start |-> At(2, 0, 0), end |-> At(2, 0, 1)],
     [start |-> At(2, 0, 0), end |-> At(5, 0, 0)],
     [start |-> At(2, 6, 23), end |-> At(3, 0, 0)],
     [start |-> At(3, 0, 0), end |-> At(3, 0, 1)],
     [start |-> At(3, 6, 0), end |-> At(4, 0, 0)]}

\* domain.GenerateWeeklyOccurrences(series, windowStart, windowEnd)
CallGenerate ==
    \E s \in EngineSeriesInputs, w \in Windows :
        /\ call = NoCall
        /\ call' = [fn |-> "GenerateWeeklyOccurrences",
                    series |-> s, windowStart |-> w.start, windowEnd |-> w.end,
                    out |-> GenerateWeeklyOccurrences(s, w.start, w.end),
                    again |-> Nil]
        /\ UNCHANGED tables

\* the same series expanded over the same window once more
CallGenerateAgain ==
    /\ call.fn = "GenerateWeeklyOccurrences"
    /\ IsNil(call.again)
    /\ call' = [call EXCEPT !.again =
                   Some(GenerateWeeklyOccurrences(call.series, call.windowStart,
                                                  call.windowEnd))]
    /\ UNCHANGED tables

\* series with and without defects: a frequency that is weekly, daily or
\* missing; a duration of -1, 0 or 1 hour; a known or an unknown zone; a
\* weekday list that is fine, empty, out of range or has a duplicate
DefectSeriesInputs ==
    {[EngineSeries(tz, At(1, 0, 9), d, 1, w, Nil, Nil) EXCEPT !.frequency = f] :
        f \in {"weekly", "daily", ""},
        d \in {-1, 0, 1},
        tz \in {"UTC", "Mars/Olympus"},
        w \in {<<1>>, <<>>, <<0>>, <<8>>, <<1, 8>>, <<1, 1>>}}

\* domain.GenerateWeeklyOccurrences called with any of those series
CallGenerateDefect ==
    \E s \in DefectSeriesInputs, w \in Windows :
        /\ call = NoCall
        /\ call' = [fn |-> "GenerateDefect",
                    series |-> s, windowStart |-> w.start, windowEnd |-> w.end,
                    out |-> GenerateWeeklyOccurrences(s, w.start, w.end)]
        /\ UNCHANGED tables

\* GenerateWeeklyOccurrences enters its week loop
CallWeekLoop ==
    \E s \in EngineSeriesInputs, w \in Windows :
        /\ call = NoCall
        /\ ValidateEngineSeries(s) = "nil"
        /\ call' = [fn |-> "WeekLoop", series |-> s,
                    windowStart |-> w.start, windowEnd |-> w.end,
                    first |-> FirstWeekIndex(ScanContext(s, w.start, w.end)),
                    weekIndex |-> FirstWeekIndex(ScanContext(s, w.start, w.end)),
                    c |-> ScanContext(s, w.start, w.end),
                    out |-> <<>>, stop |-> "running"]
        /\ UNCHANGED tables

\* the locals of the loop in progress
LoopContext == call.c

\* one iteration of the week loop: it breaks at the week boundary, returns
\* from inside the weekday loop, or goes on to weekIndex + 1
WeekIteration(c) ==
    /\ call.fn = "WeekLoop"
    /\ call.stop = "running"
    /\ IF WeekBreaks(c, call.weekIndex)
       THEN call' = [call EXCEPT !.stop = "boundary"]
       ELSE call' = [call EXCEPT
                       !.out = @ \o WeekBody(c, call.weekIndex).occs,
                       !.stop = IF WeekBody(c, call.weekIndex).stop = ""
                                THEN "running" ELSE WeekBody(c, call.weekIndex).stop,
                       !.weekIndex = IF WeekBody(c, call.weekIndex).stop = ""
                                     THEN @ + 1 ELSE @]
    /\ UNCHANGED tables

WeekLoopStep == WeekIteration(LoopContext)

NextScan == CallWeekLoop \/ WeekLoopStep

\* the loop runs on: nothing suspends a call of the engine
SpecScan == Init /\ [][NextScan]_vars /\ WF_vars(WeekLoopStep)

\* the series whose occurrences are merged with exceptions: Mondays 09:00,
\* or Mondays and Wednesdays 09:00, one hour, from week 1
MergerSeries ==
    {EngineSeries("UTC", At(1, 0, 9), 1, 1, w, Nil, Nil) : w \in {<<1>>, <<3, 1, 3>>}}

\* the window of the merger: weeks 1 and 2
MergerWindow == [start |-> At(1, 0, 0), end |-> At(3, 0, 0)]

Exception(at, kind, start, end, title, notes) ==
    [series_id |-> NewV7(1), occurrence_start |-> at, kind |-> kind,
     override_start |-> start, override_end |-> end,
     override_title |-> title, override_notes |-> notes]

\* the times an override carries: none, a new start, a new end, both inside
\* the window, both after the window
OverrideTimes ==
    {[start |-> Nil, end |-> Nil],
     [start |-> Some(At(1, 0, 8)), end |-> Nil],
     [start |-> Nil, end |-> Some(At(1, 0, 11))],
     [start |-> Some(At(1, 0, 12)), end |-> Some(At(1, 0, 13))],
     [start |-> Some(At(3, 0, 5)), end |-> Some(At(3, 0, 6))]}

\* rows of recurring_exceptions: for the first Monday occurrence, for the
\* instant one unit after it, and for the second Monday occurrence
ExceptionRows ==
    {Exception(at, "skip", Nil, Nil, Nil, Nil) :
        at \in {At(1, 0, 9), At(1, 0, 9) + 1, At(2, 0, 9)}}
    \cup {Exception(at, "override", t.start, t.end, title, notes) :
        at \in {At(1, 0, 9), At(1, 0, 9) + 1, At(2, 0, 9)},
        t \in OverrideTimes,
        title \in {Nil, Some(TitleD)},
        notes \in {Nil, Some(<<"n">>)}}

\* the exceptions of one series: at most one for an occurrence_start (unique
\* index recurring_exceptions_series_occurrence_idx)
ExceptionSets ==
    {exs \in {{e, f} : e \in ExceptionRows, f \in ExceptionRows} :
        \A e, f \in exs : e # f => e.occurrence_start # f.occurrence_start}
    \cup {{}}

\* applyRecurringExceptions(occs, exs, windowStart, windowEnd) on the
\* occurrences the engine emits for the window
CallApplyExceptions ==
    \E s \in MergerSeries, exs \in ExceptionSets :
        LET occs == GenerateWeeklyOccurrences(s, MergerWindow.start, MergerWindow.end).occs
        IN  /\ call = NoCall
            /\ call' = [fn |-> "applyRecurringExceptions",
                        occs |-> occs, exs |-> exs,
                        windowStart |-> MergerWindow.start,
                        windowEnd |-> MergerWindow.end,
                        out |-> applyRecurringExceptions(occs, exs, MergerWindow.start,
                                                         MergerWindow.end)]
            /\ UNCHANGED tables

\* the validation of Service.List and of Service.ListOccurrences
ServiceList(user, windowStart, windowEnd) ==
    IF user = <<>> THEN ErrValidation
    ELSE IF windowEnd <= windowStart THEN ErrValidation
    ELSE ErrNone

RECURSIVE ConcatAll(_)
\* append(out, ...) over a sequence of slices
ConcatAll(ss) == IF Len(ss) = 0 THEN <<>> ELSE Head(ss) \o ConcatAll(Tail(ss))

\* the orders in which a SELECT without ORDER BY may return a set of rows
RowOrders(rows) ==
    {f \in [1..Cardinality(rows) -> rows] : \A r \in rows : \E i \in DOMAIN f : f[i] = r}

\* the loop of AppointmentRepo.ListOccurrences over the series rows in the
\* order they were returned: [err, occs]
ListOccurrencesLoop(db, seriesRows, windowStart, windowEnd) ==
    LET gen(i) == GenerateWeeklyOccurrences(seriesRows[i], windowStart, windowEnd)
        failed == {i \in 1..Len(seriesRows) : gen(i).err # "nil"}
    IN  IF failed # {}
        THEN [err |-> gen(CHOOSE i \in failed : \A j \in failed : i <= j).err,
              occs |-> <<>>]
        ELSE [err |-> ErrNone,
              occs |-> SortByStart(ConcatAll(
                  [i \in 1..Len(seriesRows) |->
                      AdjustedOccurrences(db.exceptions, seriesRows[i].id, gen(i).occs,
                                          windowStart, windowEnd)]))]

\* the series rows AppointmentRepo.ListOccurrences selects
ListedSeries(db, user, windowEnd) ==
    {s \in db.series : s.user = user /\ s.dtstart < windowEnd}

\* the rows that abut the window returned too
ListClosed(rows, user, windowStart, windowEnd) ==
    LET hit == {r \in rows : r.user = user /\ r.start <= windowEnd /\ r.end >= windowStart}
    IN  [i \in 1..Cardinality(hit) |->
            CHOOSE r \in hit : Cardinality({q \in hit : q.start < r.start}) = i - 1]

\* AppointmentRepo.List: the rows of the user that intersect the window,
\* ORDER BY start_time ASC
List(rows, user, windowStart, windowEnd) ==
    LET hit == {r \in rows : r.user = user /\ r.start < windowEnd /\ r.end > windowStart}
    IN  [i \in 1..Cardinality(hit) |->
            CHOOSE r \in hit : Cardinality({q \in hit : q.start < r.start}) = i - 1]

\* two stored series of user a, accepted one after the other: Mondays 09:00
\* three times, Wednesdays 09:00 twice
ListSeriesA == EngineSeries("UTC", At(1, 0, 9), 1, 1, <<1>>, Nil, Some(3))
ListSeriesB ==
    [EngineSeries("UTC", At(1, 2, 9), 1, 1, <<3>>, Nil, Some(2)) EXCEPT !.id = NewV7(2)]

\* the tables ListOccurrences reads: no series, one or two; with a series, no
\* exception or one exception of the first series
ListTables ==
    {[series |-> {}, exceptions |-> {}]}
    \cup {[series |-> ss, exceptions |-> exs] :
            ss \in {{ListSeriesA}, {ListSeriesA, ListSeriesB}},
            exs \in {{}} \cup {{e} : e \in ExceptionRows}}

\* the windows of a list request, two of them empty or reversed
ListWindows ==
    {[start |-> At(1, 0, 0), end |-> At(3, 0, 0)],
     [start |-> At(1, 0, 9), end |-> At(1, 0, 10)],
     [start |-> At(1, 0, 10), end |-> At(1, 0, 13)],
     [start |-> At(1, 0, 11), end |-> At(1, 0, 14)],
     [start |-> At(1, 0, 10), end |-> At(1, 0, 11)],
     [start |-> At(2, 0, 0), end |-> At(4, 0, 0)],
     [start |-> At(1, 0, 10), end |-> At(1, 0, 10)],
     [start |-> At(1, 0, 11), end |-> At(1, 0, 10)]}

\* the user of a list request; the empty user id is rejected
ListUsers == Users \cup {<<>>}

\* Service.ListOccurrences and AppointmentRepo.ListOccurrences
CallListOccurrences ==
    \E db \in ListTables, user \in ListUsers, w \in ListWindows :
        \E seriesRows \in RowOrders(ListedSeries(db, user, w.end)) :
            /\ call = NoCall
            /\ call' = [fn |-> "ListOccurrences", db |-> db, user |-> user,
                        windowStart |-> w.start, windowEnd |-> w.end,
                        out |-> IF ServiceList(user, w.start, w.end) # ErrNone
                                THEN [err |-> ErrValidation, occs |-> <<>>]
                                ELSE ListOccurrencesLoop(db, seriesRows, w.start, w.end)]
            /\ UNCHANGED tables

StoredAppointment(n, user, start, end) ==
    [id |-> NewV7(n), user |-> user, title |-> TitleT, notes |-> <<>>,
     start |-> start, end |-> end, created |-> Now, updated |-> Now]

\* rows of table appointments: three of user a, two of the other user
AppointmentRows ==
    {StoredAppointment(1, UserA, SlotA.start, SlotA.end),
     StoredAppointment(2, UserA, SlotB.start, SlotB.end),
     StoredAppointment(3, UserA, At(1, 0, 12), At(1, 0, 13)),
     StoredAppointment(4, UserB, SlotA.start, SlotA.end),
     StoredAppointment(5, UserB, SlotAB.start, SlotAB.end)}

\* the contents the table can have: no two rows excluded by
\* appointments_no_overlap
AppointmentTables ==
    {rows \in SUBSET AppointmentRows :
        \A a, b \in rows : a # b => ~ExcludedPair(a, b)}

\* Service.List and AppointmentRepo.List
CallListAppointments ==
    \E rows \in AppointmentTables, user \in ListUsers, w \in ListWindows :
        /\ call = NoCall
        /\ call' = [fn |-> "ListAppointments", rows |-> rows, user |-> user,
                    windowStart |-> w.start, windowEnd |-> w.end,
                    out |-> IF ServiceList(user, w.start, w.end) # ErrNone
                            THEN [err |-> ErrValidation, appts |-> <<>>]
                            ELSE [err |-> ErrNone,
                                  appts |-> List(rows, user, w.start, w.end)]]
        /\ UNCHANGED tables

\* ------------------------------------------------------------------ gRPC handlers

\* the status codes the handlers return
OK == "OK"
InvalidArgument == "InvalidArgument"
FailedPrecondition == "FailedPrecondition"
NotFound == "NotFound"
Internal == "Internal"

\* the mapping without the branch of the idempotency conflict
CreateAppointmentStatusNoKeyBranch(err) ==
    IF err = ErrNone THEN OK
    ELSE IF err = ErrConflict THEN FailedPrecondition
    ELSE IF err = ErrValidation THEN InvalidArgument
    ELSE Internal

\* AppointmentsServer.CreateAppointment: the status for what the service returned
CreateAppointmentStatus(err) ==
    IF err = ErrNone THEN OK
    ELSE IF err = ErrConflict THEN FailedPrecondition
    ELSE IF err = ErrIdempotencyConflict THEN FailedPrecondition
    ELSE IF err = ErrValidation THEN InvalidArgument
    ELSE Internal

\* AppointmentsServer.ListAppointments
ListAppointmentsStatus(err) ==
    IF err = ErrNone THEN OK
    ELSE IF err = ErrValidation THEN InvalidArgument
    ELSE Internal

\* AppointmentsServer.DeleteAppointment
DeleteAppointmentStatus(err) ==
    IF err = ErrNone THEN OK
    ELSE IF err = ErrNotFound THEN NotFound
    ELSE IF err = ErrValidation THEN InvalidArgument
    ELSE Internal

\* AppointmentsServer.CreateRecurringSeries
CreateRecurringSeriesStatus(err) ==
    IF err = ErrNone THEN OK
    ELSE IF err = ErrConflict THEN FailedPrecondition
    ELSE IF err = ErrValidation THEN InvalidArgument
    ELSE Internal

\* AppointmentsServer.ListOccurrences
ListOccurrencesStatus(err) ==
    IF err = ErrNone THEN OK
    ELSE IF err = ErrValidation THEN InvalidArgument
    ELSE Internal

\* the status the handler of an RPC returns for what its service returned
HandlerStatus(rpc, err) ==
    CASE rpc = "CreateAppointment" -> CreateAppointmentStatus(err)
      [] rpc = "ListAppointments" -> ListAppointmentsStatus(err)
      [] rpc = "DeleteAppointment" -> DeleteAppointmentStatus(err)
      [] rpc = "CreateRecurringSeries" -> CreateRecurringSeriesStatus(err)
      [] rpc = "ListOccurrences" -> ListOccurrencesStatus(err)

\* a stored series: the series the service builds from a request, with an id
StoredSeries(n, in) ==
    [ServiceCreateRecurringSeries(in).series EXCEPT !.id = NewV7(n)]

\* calendars of user a: empty, Monday 10:00-11:00, a series of one Monday 10:00
OwnCalendars ==
    {[appts |-> {}, series |-> {}],
     [appts |-> {StoredAppointment(1, UserA, SlotB.start, SlotB.end)}, series |-> {}],
     [appts |-> {},
      series |-> {StoredSeries(2, SeriesInput(UserA, At(1, 0, 10), 1, <<1>>, 1))}]}

\* calendars of the other user: empty, Monday 09:00-10:00 of week 1, of
\* week 2, of both, or a series of two Mondays 09:00
OtherCalendars ==
    {[appts |-> rows, series |-> {}] :
        rows \in SUBSET {StoredAppointment(3, UserB, SlotA.start, SlotA.end),
                         StoredAppointment(4, UserB, At(2, 0, 9), At(2, 0, 10))}}
    \cup {[appts |-> {},
           series |-> {StoredSeries(5, SeriesInput(UserB, At(1, 0, 9), 1, <<1>>, 2))}]}

\* the tables with the calendars of both users
WriteTables ==
    {[appts |-> own.appts \cup other.appts, series |-> own.series \cup other.series,
      exceptions |-> {}] : own \in OwnCalendars, other \in OtherCalendars}

\* the write requests of user a, without idempotency key, as the service
\* hands them to the repository
WriteRequests ==
    {[op |-> "CreateAppointment", arg |-> ServiceCreate(in).appt, fresh |-> NewV7(9)] :
        in \in {ApptInput(UserA, NoKey, TitleT, SlotA),
                ApptInput(UserA, NoKey, TitleT, SlotAB)}}
    \cup {[op |-> "CreateRecurringSeries",
           arg |-> ServiceCreateRecurringSeries(in).series, fresh |-> NewV7(9)] :
            in \in {SeriesInput(UserA, At(1, 0, 9), 1, <<1>>, 2),
                    SeriesInput(UserA, At(1, 0, 10), 1, <<1>>, 1)}}

\* the rows of a user in the tables
CalendarOf(db, user) ==
    [appts |-> {a \in db.appts : a.user = user},
     series |-> {x \in db.series : x.user = user},
     exceptions |-> {e \in db.exceptions :
                       \E x \in db.series : x.user = user /\ x.id = e.series_id}]

\* one write request run in its transaction on the tables
CallWrite ==
    \E db \in WriteTables, r \in WriteRequests :
        /\ call = NoCall
        /\ call' = [fn |-> "Write", db |-> db, req |-> r, out |-> RunTx(db, r),
                    again |-> Nil]
        /\ UNCHANGED tables

\* the same request run on tables that differ in the calendars of other
\* users only
CallWriteAgain ==
    \E db \in WriteTables :
        /\ call.fn = "Write"
        /\ IsNil(call.again)
        /\ CalendarOf(db, ReqUser(call.req)) = CalendarOf(call.db, ReqUser(call.req))
        /\ call' = [call EXCEPT !.again = Some([db |-> db, out |-> RunTx(db, call.req)])]
        /\ UNCHANGED tables

\* a stored series of user a with one occurrence, Monday 09:00-10:00 of week
\* 1, and an override that moves the occurrence to Wednesday 08:00-09:00 or
\* to Tuesday 08:00-09:00
OverrideTables ==
    {[appts |-> {},
      series |-> {StoredSeries(1, SeriesInput(UserA, At(1, 0, 9), 1, <<1>>, 1))},
      exceptions |-> {Exception(At(1, 0, 9), "override",
                                Some(At(1, d, 8)), Some(At(1, d, 9)), Nil, Nil)}] :
        d \in {1, 2}}

\* series of user a the repository is asked to create: Monday and Wednesday
\* 08:00-09:00 from Monday of week 1, or Wednesday 08:00-09:00 alone
OverrideRequests ==
    {[op |-> "CreateRecurringSeries",
      arg |-> ServiceCreateRecurringSeries(in).series, fresh |-> NewV7(9)] :
        in \in {SeriesInput(UserA, At(1, 0, 8), 1, <<1, 3>>, 2),
                SeriesInput(UserA, At(1, 2, 8), 1, <<3>>, 1)}}

\* CreateRecurringSeries run in its transaction on a calendar with an
\* overridden occurrence
CallWriteOverride ==
    \E db \in OverrideTables, r \in OverrideRequests :
        /\ call = NoCall
        /\ call' = [fn |-> "WriteOverride", db |-> db, req |-> r, out |-> RunTx(db, r)]
        /\ UNCHANGED tables

\* the RPCs of the appointments service
RPCs == {"CreateAppointment", "ListAppointments", "DeleteAppointment",
         "CreateRecurringSeries", "ListOccurrences"}

\* what a handler looks at in a request before it calls the service: is
\* the request nil, are its two times (start_time and end_time, or
\* window_start and window_end) present, is its weekly rule present, does
\* its appointment id parse as a UUID
HandlerRequests ==
    [nil : BOOLEAN, first : BOOLEAN, second : BOOLEAN, weekly : BOOLEAN,
     uuid : BOOLEAN]

\* the checks of a handler before the call of the service: is the request rejected
RejectedEarly(rpc, r) ==
    CASE rpc = "CreateAppointment" -> r.nil \/ ~r.first \/ ~r.second
      [] rpc = "ListAppointments" -> r.nil \/ ~r.first \/ ~r.second
      [] rpc = "DeleteAppointment" -> r.nil \/ ~r.uuid
      [] rpc = "CreateRecurringSeries" -> r.nil \/ ~r.first \/ ~r.second \/ ~r.weekly
      [] rpc = "ListOccurrences" -> r.nil \/ ~r.first \/ ~r.second

\* a handler: [status, called]; err is what the service returns when called
Handler(rpc, r, err) ==
    IF RejectedEarly(rpc, r) THEN [status |-> InvalidArgument, called |-> FALSE]
    ELSE [status |-> HandlerStatus(rpc, err), called |-> TRUE]

\* what the service method of an RPC can return: nil, a validation error,
\* the errors of the store for its operation, an error of the database or
\* of the context, and for the series methods an error of the engine
ServiceErrors(rpc) ==
    {ErrNone, ErrValidation, ErrDeadline, InFailedTransaction}
    \cup CASE rpc = "CreateAppointment" ->
                  {ErrConflict, ErrIdempotencyConflict, UniqueViolation, CheckViolation}
           [] rpc = "ListAppointments" -> {}
           [] rpc = "DeleteAppointment" -> {ErrNotFound}
           [] rpc = "CreateRecurringSeries" ->
                  {ErrConflict, "invalid duration", CheckViolation}
           [] rpc = "ListOccurrences" -> {"invalid time_zone"}

\* one call of a handler
CallHandler ==
    \E rpc \in RPCs, r \in HandlerRequests :
        \E err \in ServiceErrors(rpc) :
            /\ call = NoCall
            /\ call' = [fn |-> "Handler", rpc |-> rpc, req |-> r, err |-> err,
                        out |-> Handler(rpc, r, err)]
            /\ UNCHANGED tables

\* an idempotency key of n bytes
LongKey(n) == [i \in 1..n |-> "c"]

\* the CreateInput values Service.Create is called with: user ids empty and
\* not, titles empty, blank, plain and padded, keys absent, short, padded and
\* around the longest, ends before, at and after the start and around 24 hours
ServiceCreateInputs ==
    {[user |-> user, key |-> key, title |-> title, notes |-> <<>>,
      start |-> At(1, 0, 9), end |-> At(1, 0, 9) + d] :
        user \in {<<>>, UserA},
        key \in {NoKey, KeyC, <<" ", "c", " ">>, LongKey(MaxKeyLen),
                 <<" ">> \o LongKey(MaxKeyLen), LongKey(MaxKeyLen + 1)},
        title \in {<<>>, <<" ">>, TitleT, <<" ", "t", " ">>},
        d \in {-1, 0, 1, MaxDuration, MaxDuration + 1}}

\* the appointments repo.Create is called with when Service.Create returns
\* what the repository returned
RepoCalls(out) == IF out.err = ErrNone THEN <<out.appt>> ELSE <<>>

\* one call of Service.Create, up to its call of the repository
CallServiceCreate ==
    \E in \in ServiceCreateInputs :
        /\ call = NoCall
        /\ call' = [fn |-> "Service.Create", in |-> in,
                    err |-> ServiceCreate(in).err,
                    repo |-> RepoCalls(ServiceCreate(in))]
        /\ UNCHANGED tables

\* the CreateRecurringSeriesInput values Service.CreateRecurringSeries is
\* called with, from Wednesday 09:00 of week 1: every rule of an interval, a
\* weekday list, an until and a count around their limits; and ends around
\* the start and around 24 hours in zones known, unknown and missing
SeriesServiceInput(tz, start, d, sub, interval, weekdays, until, count) ==
    [user |-> UserA, title |-> TitleT, notes |-> <<>>,
     start |-> start, end |-> start + d, endSub |-> sub,
     frequency |-> "weekly", interval |-> interval, byweekday |-> weekdays,
     until |-> until, count |-> count, timezone |-> tz]

SeriesServiceInputs ==
    {SeriesServiceInput("UTC", At(1, 2, 9), 1, 0, interval, weekdays, until, count) :
        interval \in {-1, 0, 1, 2},
        weekdays \in {<<>>, <<1>>, <<3, 1, 3>>, <<0>>, <<8, 1>>},
        until \in {Nil, Some(At(1, 2, 8)), Some(At(1, 2, 9)), Some(At(3, 2, 9)),
                   Some(At(1, 2, 9) + RecurringConflictLookahead),
                   Some(At(1, 2, 9) + RecurringConflictLookahead + 1)},
        count \in {Nil, Some(0), Some(1), Some(3), Some(26), Some(27)}}
    \cup {SeriesServiceInput(tz, At(1, 6, 2), d, sub, 1, <<>>, Nil, Some(2)) :
            tz \in {"UTC", "America/New_York", "Mars/Olympus", ""},
            d \in {-1, 0, 1, MaxDuration},
            sub \in {0, 1}}

\* the series repo.CreateRecurringSeries is called with when
\* Service.CreateRecurringSeries returns what the repository returned
RepoSeriesCalls(out) == IF out.err = ErrNone THEN <<out.series>> ELSE <<>>

\* one call of Service.CreateRecurringSeries, up to its call of the repository
CallServiceCreateRecurringSeries ==
    \E in \in SeriesServiceInputs :
        /\ call = NoCall
        /\ call' = [fn |-> "Service.CreateRecurringSeries", in |-> in,
                    err |-> ServiceCreateRecurringSeries(in).err,
                    repo |-> RepoSeriesCalls(ServiceCreateRecurringSeries(in))]
        /\ UNCHANGED tables

NextRead ==
    \/ CallGenerate
    \/ CallGenerateAgain
    \/ CallApplyExceptions
    \/ CallListOccurrences
    \/ CallListAppointments
    \/ CallServiceCreate
    \/ CallServiceCreateRecurringSeries
    \/ CallHandler
    \/ CallWrite
    \/ CallWriteAgain
    \/ CallWriteOverride
    \/ CallGenerateDefect

SpecRead == Init /\ [][NextRead]_vars

\* ------------------------------------------------------------------ properties

Overlap(s1, e1, s2, e2) == s1 < e2 /\ e1 > s2

CreateReq(p) == req[p].op = "CreateAppointment"
SeriesReq(p) == req[p].op = "CreateRecurringSeries"

\* every occurrence of a stored series after its exceptions: the rule
\* expanded from its own start to the end of its horizon
SeriesOccurrences(s) ==
    AdjustedOccurrences(exceptions, s.id,
        GenerateWeeklyOccurrences(s, s.dtstart, ConflictWindowEnd(s)).occs,
        0, ConflictWindowEnd(s) + RecurringConflictLookahead)

\* the occurrences of a series that is being created
NewOccurrences(n) ==
    GenerateWeeklyOccurrences(n, n.dtstart, ConflictWindowEnd(n)).occs

\* an occurrence of the series n overlaps another of its occurrences, a stored
\* appointment of its user or an occurrence of another stored series of its user
OverlapsCalendar(n, occs) ==
    \/ \E i, j \in 1..Len(occs) :
          i # j /\ Overlap(occs[i].start, occs[i].end, occs[j].start, occs[j].end)
    \/ \E i \in 1..Len(occs) : \E a \in appts :
          a.user = n.user /\ Overlap(occs[i].start, occs[i].end, a.start, a.end)
    \/ \E i \in 1..Len(occs) : \E s \in series : \E e \in Spans(SeriesOccurrences(s)) :
          s.user = n.user /\ Overlap(occs[i].start, occs[i].end, e.start, e.end)

NewSeriesOverlaps(n) == OverlapsCalendar(n, NewOccurrences(n))

\* C1: no two distinct stored appointments of one user overlap
AppointmentsDisjoint ==
    \A a, b \in appts :
        (a # b /\ a.user = b.user) => ~(a.start < b.end /\ a.end > b.start)

\* C1 happens: a user has two stored appointments and a request that
\* overlapped one was turned down
AppointmentsDisjointSeen ==
    /\ \E a, b \in appts : a # b /\ a.user = b.user
    /\ \E p \in Procs : pc[p] = "done" /\ CreateReq(p) /\ res[p].err = ErrConflict

\* C2: no stored appointment overlaps an occurrence of a stored series of its
\* user, and no two occurrences of a user's stored series overlap
CalendarDisjoint ==
    /\ \A a \in appts : \A s \in series : \A e \in Spans(SeriesOccurrences(s)) :
          a.user = s.user => ~Overlap(a.start, a.end, e.start, e.end)
    /\ \A s, t \in series :
          (s # t /\ s.user = t.user) =>
              \A e \in Spans(SeriesOccurrences(s)) : \A f \in Spans(SeriesOccurrences(t)) :
                  ~Overlap(e.start, e.end, f.start, f.end)
    /\ \A s \in series : \A e, f \in Spans(SeriesOccurrences(s)) :
          e # f => ~Overlap(e.start, e.end, f.start, f.end)

\* the function of p's transaction runs in this step
Executes(p) == pc[p] = "locked" /\ pc'[p] = "executed"

\* no stored row has the id the request of p brings
NewID(p) == ~\E e \in appts : e.id = req[p].arg.id

\* p and q handle CreateAppointment requests of one user with overlapping
\* intervals and distinct ids, and the requests ran concurrently
ConcurrentCreates(p, q) ==
    /\ p # q /\ {p, q} \in conc
    /\ CreateReq(p) /\ CreateReq(q)
    /\ req[p].arg.user = req[q].arg.user
    /\ Overlap(req[p].arg.start, req[p].arg.end, req[q].arg.start, req[q].arg.end)

\* the appointment a request returned is stored
Stored(v) == \E a \in appts : a.id = v.id /\ SamePayload(a, v)

\* q has committed its row, which is still stored
Committed(q) ==
    pc[q] = "done" /\ res[q].err = ErrNone /\ Stored(Val(res[q].val))

\* C3: of concurrent overlapping CreateAppointment requests of one user with
\* distinct ids at most one commits a row: once one has committed, every
\* other one that runs returns ErrConflict
OneConcurrentCreateWins ==
    [][\A p, q \in Procs :
          (Executes(p) /\ ConcurrentCreates(p, q) /\ Committed(q) /\ NewID(p))
              => (res'[p].err = ErrConflict /\ pend'[p] = NoWrite)]_vars

\* C3 happens: two such requests ran concurrently, one stored its row and the
\* other returned ErrConflict
OneConcurrentCreateWinsSeen ==
    \E p, q \in Procs :
        /\ ConcurrentCreates(p, q) /\ Committed(q) /\ NewID(p)
        /\ pc[p] = "done" /\ res[p].err = ErrConflict

\* C4: a CreateAppointment that finds a stored row with its derived id and its
\* payload returns that row as a success
ReplayReturnsExisting ==
    \A p \in Procs :
        (pc[p] = "executed" /\ CreateReq(p)) =>
            \A e \in appts :
                (e.id = req[p].arg.id /\ SamePayload(e, req[p].arg))
                    => (res[p].err = ErrNone /\ res[p].val = <<e>>)

\* C5: a CreateAppointment that finds a stored row of its user with its derived
\* id and another payload returns ErrIdempotencyConflict
ChangedReplayRejected ==
    \A p \in Procs :
        (pc[p] = "executed" /\ CreateReq(p)) =>
            \A e \in appts :
                (e.id = req[p].arg.id /\ e.user = req[p].arg.user
                 /\ ~SamePayload(e, req[p].arg))
                    => res[p].err = ErrIdempotencyConflict

\* the task is between taking the lock and the end of its transaction
InCritical(p) == pc[p] \in {"locked", "executed"}

\* C6: at most one write transaction of a user is between lock acquisition
\* and commit or rollback, and a transaction that has read or written holds
\* the lock of its user
WritesExcludeEachOther ==
    /\ \A p, q \in Procs :
          (p # q /\ InCritical(p) /\ InCritical(q))
              => ReqUser(req[p]) # ReqUser(req[q])
    /\ \A p \in Procs :
          (pc[p] = "executed" \/ pend[p] # NoWrite)
              => [key |-> hashtext(ReqUser(req[p])), holder |-> p] \in locks

\* C6 happens: one transaction of a user has written and not committed while
\* another request of that user waits for the lock
WritesExcludeEachOtherSeen ==
    \E p, q \in Procs :
        /\ p # q
        /\ pc[p] = "executed" /\ pend[p] # NoWrite
        /\ pc[q] = "waiting"
        /\ ReqUser(req[p]) = ReqUser(req[q])

\* C7: every request that committed or rolled back returned what it returns
\* when the requests run one at a time in the order they took the lock, and
\* the stored rows are those that execution leaves
Linearizable ==
    lin /\ seqDB = [appts |-> appts, series |-> series]

\* C7 happens: a create-series and a create-appointment request of one user
\* ran concurrently; the appointment was stored and the series turned down
LinearizableSeen ==
    \E p, q \in Procs :
        /\ {p, q} \in conc
        /\ pc[p] = "done" /\ pc[q] = "done"
        /\ SeriesReq(p) /\ CreateReq(q)
        /\ ReqUser(req[p]) = ReqUser(req[q])
        /\ res[p].err = ErrConflict /\ res[q].err = ErrNone
        /\ Stored(Val(res[q].val))

\* C8: when CreateRecurringSeries succeeds no occurrence of the new series
\* overlaps another of its occurrences, a stored appointment of the user or
\* an occurrence of another stored series of the user
AcceptedSeriesDisjoint ==
    \A p \in Procs :
        (pc[p] = "executed" /\ SeriesReq(p) /\ res[p].err = ErrNone)
            => ~NewSeriesOverlaps(req[p].arg)

\* C9: the series conflict check answers ErrConflict only when an occurrence
\* of the new series overlaps another one, a stored appointment or an
\* occurrence that the exceptions leave of another stored series; intervals
\* that abut and occurrences that are skipped do not count
ConflictOnlyOnOverlap ==
    \A p \in Procs :
        (pc[p] = "executed" /\ SeriesReq(p) /\ res[p].err = ErrConflict)
            => NewSeriesOverlaps(req[p].arg)

\* C9 happens: a series is stored whose only occurrence takes the place of a
\* skipped occurrence of another stored series and abuts a stored appointment
ConflictOnlyOnOverlapSeen ==
    \E s, t \in series : \E ex \in exceptions : \E a \in appts :
        /\ s # t /\ s.user = t.user /\ a.user = t.user
        /\ ex.series_id = s.id /\ ex.kind = "skip"
        /\ ex.occurrence_start = t.dtstart
        /\ s.dtstart = t.dtstart /\ s.duration = t.duration
        /\ t.count = Some(1)
        /\ a.start = t.dtstart + t.duration

\* the request of p abuts a stored appointment of its user, overlaps none and
\* brings an id that no stored row has
AbutsOnly(p) ==
    /\ CreateReq(p)
    /\ \E e \in appts :
          /\ e.user = req[p].arg.user
          /\ (e.end = req[p].arg.start \/ e.start = req[p].arg.end)
    /\ ~\E e \in appts :
          /\ e.user = req[p].arg.user
          /\ e.start < req[p].arg.end /\ e.end > req[p].arg.start
    /\ ~\E e \in appts : e.id = req[p].arg.id

\* C10: CreateAppointment of [t1, t2) succeeds when a stored appointment of
\* the user ends at t1 or starts at t2 and none overlaps, and its row is
\* stored beside the others when its transaction commits
AbuttingAccepted ==
    [][\A p \in Procs :
          /\ (Executes(p) /\ AbutsOnly(p))
                => /\ res'[p].err = ErrNone
                   /\ pend'[p].kind = "insertAppointment"
                   /\ pend'[p].row.start = req[p].arg.start
                   /\ pend'[p].row.end = req[p].arg.end
          /\ (pc[p] = "executed" /\ pc'[p] = "done" /\ res'[p].err = ErrNone
              /\ pend[p].kind = "insertAppointment")
                => appts' = appts \cup {pend[p].row}]_vars

\* C10 happens: a request succeeded and its row is stored beside the row of
\* the same user that ends where it starts
AbuttingAcceptedSeen ==
    \E p \in Procs : \E e \in appts :
        /\ pc[p] = "done" /\ CreateReq(p) /\ res[p].err = ErrNone
        /\ Stored(Val(res[p].val))
        /\ e.user = req[p].arg.user
        /\ e.end = req[p].arg.start

\* ------------------------------------------------------------------ properties of the recurrence engine

\* the last call was an expansion that returned no error
Expanded == call.fn = "GenerateWeeklyOccurrences" /\ call.out.err = "nil"

EmittedStarts == {call.out.occs[i].start : i \in 1..Len(call.out.occs)}

\* the weeks a rule is followed for: up to the week of the latest window end
RuleWeeks ==
    LET ends == {w.end \div (WeekDays * DayHours) : w \in Windows}
    IN  CHOOSE n \in ends : \A m \in ends : m <= n

\* the starts the rule of a series names, from dtstart on: the chosen
\* weekdays of every interval-th local calendar week counted from the week of
\* dtstart, at dtstart's local time of day
RuleCandidates(s) ==
    LET local == In(s.timezone, s.dtstart)
        step == (IF s.interval < 1 THEN 1 ELSE s.interval) * WeekDays * DayHours
        all == {CandidateStart(s.timezone, local, mondayDateUTC(local) + k * step,
                               s.byweekday[i]) :
                   k \in 0..RuleWeeks, i \in 1..Len(s.byweekday)}
    IN  {t \in all : t >= s.dtstart}

\* the first n of a set of instants
FirstOf(T, n) == {t \in T : Cardinality({u \in T : u < t}) < n}

\* the occurrences of the rule: within count, and not after until
RuleStarts(s) ==
    LET counted == IF IsNil(s.count) THEN RuleCandidates(s)
                   ELSE FirstOf(RuleCandidates(s), Val(s.count))
    IN  {t \in counted : IsNil(s.until) \/ t <= Val(s.until)}

\* does the occurrence of series s that starts at t intersect the window
Intersects(s, t, windowStart, windowEnd) ==
    t < windowEnd /\ t + s.duration > windowStart

\* C11: an occurrence of the rule is emitted if and only if its interval
\* [start, start + duration) intersects the window, also when it starts in a
\* calendar week before the week of the window start.
EmittedIffIntersects ==
    Expanded =>
        EmittedStarts = {t \in RuleStarts(call.series) :
                            Intersects(call.series, t, call.windowStart, call.windowEnd)}

\* C12: a series with count N expanded over a window that covers its first N
\* candidates from dtstart on, all admitted by until, yields exactly these N;
\* over any window it yields exactly those of the first N that intersect it.
CountHonored ==
    (Expanded /\ ~IsNil(call.series.count)) =>
        LET s == call.series
            firstN == FirstOf(RuleCandidates(s), Val(s.count))
        IN  /\ (/\ Cardinality(firstN) = Val(s.count)
                /\ \A t \in firstN :
                      /\ IsNil(s.until) \/ t <= Val(s.until)
                      /\ call.windowStart <= t
                      /\ t + s.duration <= call.windowEnd)
                  => /\ Len(call.out.occs) = Val(s.count)
                     /\ EmittedStarts = firstN
            /\ EmittedStarts = {t \in firstN :
                                   /\ IsNil(s.until) \/ t <= Val(s.until)
                                   /\ Intersects(s, t, call.windowStart, call.windowEnd)}

\* C13: every emitted occurrence starts at the local time of day of dtstart
\* in the zone of the series, on every date, a date of a DST transition
\* included.
WallClockStable ==
    Expanded =>
        \A i \in 1..Len(call.out.occs) :
            TimeOfDay(In(call.series.timezone, call.out.occs[i].start))
                = TimeOfDay(In(call.series.timezone, call.series.dtstart))

DigitValue(ch) == CHOOSE d \in 0..9 : Digits[d + 1] = ch

RECURSIVE ParseNat(_)
\* the number a sequence of decimal digits denotes
ParseNat(s) ==
    IF Len(s) = 0 THEN 0
    ELSE ParseNat(SubSeq(s, 1, Len(s) - 1)) * 10 + DigitValue(s[Len(s)])

\* is id the base-10 representation of the natural number n
Base10Of(id, n) ==
    /\ Len(id) >= 1
    /\ \A k \in 1..Len(id) : \E d \in 1..Len(Digits) : Digits[d] = id[k]
    /\ Len(id) = 1 \/ id[1] # "0"
    /\ ParseNat(id) = n

StrictlyAscending ==
    Expanded =>
        \A i \in 2..Len(call.out.occs) :
            call.out.occs[i - 1].start < call.out.occs[i].start

\* weekdays given out of order and twice, interval given as 0, and several
\* occurrences emitted
StrictlyAscendingSeen ==
    /\ Expanded
    /\ call.series.byweekday = <<3, 1, 3>>
    /\ call.series.interval = 0
    /\ Len(call.out.occs) >= 4

\* C16: no emitted occurrence starts before dtstart or after until, and the
\* occurrence of the rule that starts exactly at until is emitted when it
\* intersects the window.
UntilInclusive ==
    Expanded =>
        LET s == call.series
        IN  /\ \A t \in EmittedStarts :
                  /\ s.dtstart <= t
                  /\ IsNil(s.until) \/ t <= Val(s.until)
            /\ \A t \in RuleStarts(s) :
                  (/\ ~IsNil(s.until)
                   /\ t = Val(s.until)
                   /\ Intersects(s, t, call.windowStart, call.windowEnd))
                      => t \in EmittedStarts

\* ------------------------------------------------------------------ properties of the exception merger

Merged == call.fn = "applyRecurringExceptions"

\* the elements of the result that stem from occurrence o
ResultsOf(o) == {k \in 1..Len(call.out) : call.out[k].id = o.id}

\* the exceptions whose occurrence_start is the start of occurrence o
MatchesOf(o) == {e \in call.exs : e.occurrence_start = o.start}

\* occurrence o rewritten with the present fields of override e
Rewritten(o, e) ==
    [id |-> o.id,
     series_id |-> o.series_id,
     user |-> o.user,
     title |-> IF IsNil(e.override_title) THEN o.title ELSE Val(e.override_title),
     notes |-> IF IsNil(e.override_notes) THEN o.notes ELSE Val(e.override_notes),
     start |-> IF IsNil(e.override_start) THEN o.start ELSE Val(e.override_start),
     end |-> IF IsNil(e.override_end) THEN o.end ELSE Val(e.override_end)]

\* C17: a skip drops its matching occurrence; an override replaces start,
\* end, title and notes of its matching occurrence by its present fields,
\* keeps the other fields, the occurrence id and the series id, and the
\* occurrence is removed when the rewritten interval no longer intersects the
\* window.
MergerEffect ==
    Merged =>
        \A i \in 1..Len(call.occs) : \A e \in MatchesOf(call.occs[i]) :
            LET o == call.occs[i]
                n == Rewritten(o, e)
            IN  IF e.kind = "skip" THEN ResultsOf(o) = {}
                ELSE IF n.start < call.windowEnd /\ n.end > call.windowStart
                THEN /\ Cardinality(ResultsOf(o)) = 1
                     /\ \A k \in ResultsOf(o) : call.out[k] = n
                ELSE ResultsOf(o) = {}

\* one occurrence was skipped and another rewritten by an override that
\* carries new times and no title
MergerEffectSeen ==
    /\ Merged
    /\ \E i, j \in 1..Len(call.occs) :
          /\ \E e \in MatchesOf(call.occs[i]) : e.kind = "skip"
          /\ \E e \in MatchesOf(call.occs[j]) :
                /\ e.kind = "override"
                /\ ~IsNil(e.override_start)
                /\ IsNil(e.override_title)
                /\ \E k \in ResultsOf(call.occs[j]) :
                      /\ call.out[k].start = Val(e.override_start)
                      /\ call.out[k].title = call.occs[j].title
    /\ Len(call.out) = Len(call.occs) - 1

\* C18: an occurrence whose start is no exception's occurrence_start passes
\* through unchanged, an exception one unit off does not apply, and the
\* result is the input in the same relative order with only dropped or
\* rewritten elements.
MergerFrame ==
    Merged =>
        LET kept == {i \in 1..Len(call.occs) : ResultsOf(call.occs[i]) # {}}
            order == Ascending(kept)
        IN  /\ \A i \in 1..Len(call.occs) :
                  MatchesOf(call.occs[i]) = {}
                      => \E k \in 1..Len(call.out) : call.out[k] = call.occs[i]
            /\ Len(call.out) = Len(order)
            /\ \A k \in 1..Len(call.out) : call.out[k].id = call.occs[order[k]].id

\* an exception one unit after the first of four occurrences and a skip of
\* the third: the first, second and fourth are returned as they were, in
\* this order
MergerFrameSeen ==
    /\ Merged
    /\ Len(call.occs) = 4
    /\ \E e \in call.exs : e.occurrence_start = call.occs[1].start + 1
    /\ \E e \in call.exs : e.kind = "skip" /\ e.occurrence_start = call.occs[3].start
    /\ call.out = <<call.occs[1], call.occs[2], call.occs[4]>>

\* ------------------------------------------------------------------ properties of the list operations

ListedOccurrences == call.fn = "ListOccurrences" /\ call.out.err = ErrNone

\* C19: an occurrence whose original interval does not intersect the window,
\* whose occurrence_start lies in [W_start - 14 days, W_end + 14 days), and
\* whose override moves it to an interval that intersects the window, is
\* returned by ListOccurrences with its overridden interval.
OverrideCaught ==
    ListedOccurrences =>
        \A s \in call.db.series : \A e \in call.db.exceptions :
            LET at == e.occurrence_start
                start == IF IsNil(e.override_start) THEN at ELSE Val(e.override_start)
                end == IF IsNil(e.override_end) THEN at + s.duration
                       ELSE Val(e.override_end)
            IN  (/\ s.user = call.user
                 /\ e.series_id = s.id
                 /\ e.kind = "override"
                 /\ at \in RuleStarts(s)
                 /\ ~Intersects(s, at, call.windowStart, call.windowEnd)
                 /\ at >= call.windowStart - ExceptionBufferDays * DayHours
                 /\ at < call.windowEnd + ExceptionBufferDays * DayHours
                 /\ start < call.windowEnd
                 /\ end > call.windowStart)
                    => \E k \in 1..Len(call.out.occs) :
                          /\ call.out.occs[k].series_id = s.id
                          /\ call.out.occs[k].start = start
                          /\ call.out.occs[k].end = end

ListedAppointments == call.fn = "ListAppointments"

\* C20: ListAppointments returns exactly the stored appointments of the user
\* with start < W_end and end > W_start, ascending by start: none of another
\* user, none that only abuts the window; an empty user or a window with
\* W_end <= W_start is rejected with a validation error.
ListExact ==
    ListedAppointments =>
        IF call.user = <<>> \/ call.windowEnd <= call.windowStart
        THEN call.out.err = ErrValidation /\ call.out.appts = <<>>
        ELSE LET out == call.out.appts
             IN  /\ call.out.err = ErrNone
                 /\ {out[i] : i \in 1..Len(out)}
                        = {r \in call.rows : /\ r.user = call.user
                                             /\ r.start < call.windowEnd
                                             /\ r.end > call.windowStart}
                 /\ \A i, j \in 1..Len(out) : i < j => out[i].start < out[j].start
                 /\ \A i \in 1..Len(out) :
                       /\ out[i].user = call.user
                       /\ out[i].end # call.windowStart
                       /\ out[i].start # call.windowEnd

\* two appointments returned in order while the table also holds one that
\* ends at the window start and one of another user inside the window
ListExactSeen ==
    /\ ListedAppointments
    /\ call.out.err = ErrNone
    /\ Len(call.out.appts) = 2
    /\ \E r \in call.rows : r.user = call.user /\ r.end = call.windowStart
    /\ \E r \in call.rows :
          /\ r.user # call.user
          /\ r.start < call.windowEnd
          /\ r.end > call.windowStart

\* ------------------------------------------------------------------ properties of deletes, visibility and failures

DeleteReq(p) == req[p].op = "DeleteAppointment"

\* the transaction of task p ends
Ends(p) == pc[p] = "executed" /\ pc'[p] = "done"

\* the rows a delete request of task p is keyed to
DeleteTargets(p) ==
    {r \in appts : r.user = req[p].arg.user /\ r.id = req[p].arg.id}

\* C21: a delete is keyed by (user, appointment id): it removes exactly the
\* row with that id owned by that user; when there is no such row (unknown
\* id, deleted before, owned by another user) it answers not found and the
\* stored rows stay as they are.
DeleteKeyed ==
    [][\A p \in Procs :
          /\ (Executes(p) /\ DeleteReq(p))
                => IF DeleteTargets(p) = {}
                   THEN res'[p].err = ErrNotFound /\ pend'[p] = NoWrite
                   ELSE /\ res'[p].err = ErrNone
                        /\ pend'[p].kind = "deleteAppointment"
                        /\ DeleteTargets(p) = {pend'[p].row}
          /\ (Ends(p) /\ DeleteReq(p))
                => IF res'[p].err = ErrNone
                   THEN /\ pend[p].row \in appts
                        /\ appts' = appts \ {pend[p].row}
                        /\ series' = series
                   ELSE appts' = appts /\ series' = series]_vars

\* a delete of a stored row by a user who does not own it was answered not
\* found, and the row is still stored
DeleteKeyedSeen ==
    \E p \in Procs :
        /\ pc[p] = "done"
        /\ DeleteReq(p)
        /\ res[p].err = ErrNotFound
        /\ \E r \in appts : r.id = req[p].arg.id /\ r.user # req[p].arg.user

\* what ListAppointments answers a user over a window, on the stored rows
ListedRows(user, w) == List(appts, user, w.start, w.end)

\* what ListOccurrences answers a user over a window, on the stored rows
ListedOccs(user, w) ==
    LET rows == ListedSeries(DB, user, w.end)
    IN  ListOccurrencesLoop(DB, CHOOSE f \in RowOrders(rows) : TRUE, w.start, w.end).occs

RowListed(a, rows) == \E i \in 1..Len(rows) : rows[i] = a

\* every occurrence of the rule of series s that intersects the window is
\* among the occurrences listed
SeriesListed(s, starts, w, occs) ==
    \A t \in starts :
        Intersects(s, t, w.start, w.end)
            => \E i \in 1..Len(occs) : occs[i].series_id = s.id /\ occs[i].start = t

\* every stored appointment is in every list of its user over a window it
\* intersects
AppointmentsVisible ==
    \A w \in Windows : \A a \in appts :
        Overlap(a.start, a.end, w.start, w.end) => RowListed(a, ListedRows(a.user, w))

\* every occurrence of a stored series is in every list of occurrences of its
\* user over a window it intersects
SeriesVisible ==
    \A w \in Windows : \A s \in series :
        SeriesListed(s, RuleStarts(s), w, ListedOccs(s.user, w))

\* C22: successful writes are visible to the reads that follow: the series a
\* successful CreateRecurringSeries answered is stored, every stored
\* appointment is in every ListAppointments of its user over a window it
\* intersects, and every occurrence of a stored series that intersects the
\* window of a ListOccurrences is in its answer.
WritesVisible ==
    /\ \A p \in Procs :
          (pc[p] = "done" /\ SeriesReq(p) /\ res[p].err = ErrNone)
              => res[p].val[1] \in series
    /\ AppointmentsVisible
    /\ SeriesVisible

\* the request of task p ends with an error
Fails(p) ==
    /\ pc[p] \in {"waiting", "locked", "executed"}
    /\ pc'[p] = "done"
    /\ res'[p].err # ErrNone

\* C23: no partial state on cancellation or error: when a write request is
\* cancelled by its deadline or its transactional function returns an error,
\* at any step between the request for the lock and the commit, the stored
\* appointments, series and exceptions are exactly those from before, nothing
\* of the request stays pending, and the user's lock is released.
NoPartialState ==
    [][\A p \in Procs :
          Fails(p) => /\ appts' = appts
                      /\ series' = series
                      /\ exceptions' = exceptions
                      /\ pend'[p] = NoWrite
                      /\ \A l \in locks' : l.holder # p]_vars

\* a request was cancelled after its function had run under the lock with a
\* fresh id: no row has that id and the task holds no lock
NoPartialStateSeen ==
    \E p \in Procs :
        /\ pc[p] = "done"
        /\ res[p].err = ErrDeadline
        /\ req[p].fresh # NilID
        /\ \A a \in appts : a.id # req[p].fresh
        /\ \A s \in series : s.id # req[p].fresh
        /\ \A l \in locks : l.holder # p

\* ------------------------------------------------------------------ properties of the handlers

\* the status gRPC names for a deadline that passed
DeadlineExceeded == "DeadlineExceeded"

\* C24: a handler whose deadline, the caller's or the server's default, is
\* exceeded while a database operation is in flight returns the status
\* deadline exceeded to the caller, not internal or any other status.
DeadlineStatus ==
    \A p \in Procs :
        (pc[p] = "done" /\ res[p].err = ErrDeadline)
            => HandlerStatus(req[p].op, res[p].err) = DeadlineExceeded

\* ------------------------------------------------------------------ properties of the service layer

\* the CreateInput passes every check the specification names
CreateInputValid(in) ==
    /\ in.user # <<>>
    /\ TrimSpace(in.title) # <<>>
    /\ in.end > in.start
    /\ in.end - in.start <= DayHours
    /\ Len(TrimSpace(in.key)) <= MaxKeyLen

\* C25: every appointment Service.Create passes to the store has a non-empty
\* user, a title that is non-empty and trimmed, and end > start with
\* end - start <= 24 hours; when one of these fails, or the trimmed
\* idempotency key is longer than 256 bytes, Create returns ValidationError
\* and the store is not called.
CreateValidated ==
    call.fn = "Service.Create"
        => IF CreateInputValid(call.in)
           THEN /\ Len(call.repo) = 1
                /\ call.repo[1].user = call.in.user
                /\ call.repo[1].user # <<>>
                /\ call.repo[1].title = TrimSpace(call.in.title)
                /\ call.repo[1].title # <<>>
                /\ TrimSpace(call.repo[1].title) = call.repo[1].title
                /\ call.repo[1].start = call.in.start
                /\ call.repo[1].end = call.in.end
                /\ call.repo[1].end > call.repo[1].start
                /\ call.repo[1].end - call.repo[1].start <= DayHours
           ELSE call.err = ErrValidation /\ call.repo = <<>>

\* a padded title of an appointment of exactly 24 hours with a padded key of
\* 256 bytes reached the store trimmed
CreateValidatedSeen ==
    /\ call.fn = "Service.Create"
    /\ call.in.title = <<" ", "t", " ">>
    /\ call.in.end - call.in.start = DayHours
    /\ call.in.key = <<" ">> \o LongKey(MaxKeyLen)
    /\ Len(call.repo) = 1
    /\ call.repo[1].title = TitleT

\* the weekday of an instant in a zone, Monday 1 to Sunday 7
WeekdayIn(tz, t) == IF GoWeekday(In(tz, t)) = 0 THEN 7 ELSE GoWeekday(In(tz, t))

\* the normalized series meets every condition the store relies on
SeriesNormal(in, s) ==
    /\ s.interval >= 1
    /\ in.interval = 0 => s.interval = 1
    /\ Len(s.byweekday) > 0
    /\ \A i \in 1..Len(s.byweekday) : s.byweekday[i] \in 1..7
    /\ \A i, j \in 1..Len(s.byweekday) : i < j => s.byweekday[i] < s.byweekday[j]
    /\ {s.byweekday[i] : i \in 1..Len(s.byweekday)}
         = IF Len(in.byweekday) = 0 THEN {WeekdayIn(s.timezone, in.start)}
           ELSE {in.byweekday[i] : i \in 1..Len(in.byweekday)}
    /\ s.duration > 0
    /\ s.duration <= DayHours
    /\ ~IsNil(s.until) \/ ~IsNil(s.count)
    /\ ~IsNil(s.until) => Val(s.until) >= s.dtstart
    /\ (IsNil(s.count) /\ ~IsNil(s.until))
          => Val(s.until) <= s.dtstart + LookaheadDays * DayHours

\* C26: every series Service.CreateRecurringSeries passes to the store has
\* interval >= 1 (0 normalized to 1), weekdays that are a non-empty,
\* duplicate-free, ascending list within 1..7 (the weekday of start in the
\* zone of the series when the input names none), 0 < duration <= 24 hours,
\* until or count present, until >= start, and until <= start + 180 days
\* when count is absent; otherwise it returns ValidationError without
\* calling the store.
SeriesValidated ==
    call.fn = "Service.CreateRecurringSeries"
        => IF Len(call.repo) = 1
           THEN SeriesNormal(call.in, call.repo[1])
           ELSE call.err = ErrValidation /\ call.repo = <<>>

\* the weeks of the rule that are followed to find every occurrence: past
\* the horizon of 180 days
HorizonWeeks == LookaheadDays \div WeekDays + 2

\* the starts the rule of a series names from dtstart on, past the horizon
AllCandidates(s) ==
    LET local == In(s.timezone, s.dtstart)
        step == s.interval * WeekDays * DayHours
        all == {CandidateStart(s.timezone, local, mondayDateUTC(local) + k * step,
                               s.byweekday[i]) :
                   k \in 0..HorizonWeeks, i \in 1..Len(s.byweekday)}
    IN  {t \in all : t >= s.dtstart}

\* every occurrence the series will ever produce: within count, not after until
AllStarts(s, candidates) ==
    LET counted == IF IsNil(s.count) THEN candidates
                   ELSE FirstOf(candidates, Val(s.count))
    IN  {t \in counted : IsNil(s.until) \/ t <= Val(s.until)}

\* the end of the horizon of a series
HorizonEnd(s) == s.dtstart + LookaheadDays * DayHours

\* the occurrences of the rule available within the horizon and before until
Available(s, candidates) ==
    {t \in candidates : t <= HorizonEnd(s) /\ (IsNil(s.until) \/ t <= Val(s.until))}

\* the occurrences of an accepted series: at least one, all of them starting
\* within the horizon, and all of them expanded by the conflict check
SeriesWithinHorizon(s, starts) ==
    /\ starts # {}
    /\ \A t \in starts : s.dtstart <= t /\ t <= HorizonEnd(s)
    /\ ~IsNil(s.count) => Cardinality(starts) = Val(s.count)
    /\ {NewOccurrences(s)[i].start : i \in 1..Len(NewOccurrences(s))} = starts

\* a request with a rule the engine follows whose count is larger than the
\* number of occurrences available
CountTooLarge(in, s, candidates) ==
    /\ LoadLocation(in.timezone)
    /\ s.interval >= 1
    /\ \A i \in 1..Len(s.byweekday) : s.byweekday[i] \in 1..7
    /\ ~IsNil(in.count)
    /\ Val(in.count) > Cardinality(Available(s, candidates))

\* the series Service.CreateRecurringSeries builds from a request
Normalized(in) == NormalizedSeries(in, DefaultWeekdays(in))

\* C27: every series Service.CreateRecurringSeries accepts generates at
\* least one occurrence, and all its occurrences, as bounded by until and
\* count, start within [dtstart, dtstart + 180 days]; a count larger than
\* the number of occurrences available within that horizon, or before until
\* when until is earlier, is rejected with ValidationError; so the conflict
\* check of the store, which expands the new series over that horizon,
\* examines every occurrence the series will ever produce.
HorizonComplete ==
    call.fn = "Service.CreateRecurringSeries"
        => /\ Len(call.repo) = 1
                => SeriesWithinHorizon(call.repo[1],
                       AllStarts(call.repo[1], AllCandidates(call.repo[1])))
           /\ CountTooLarge(call.in, Normalized(call.in), AllCandidates(Normalized(call.in)))
                => call.err = ErrValidation /\ call.repo = <<>>

\* a series of 26 Mondays from a Wednesday was accepted: its last occurrence
\* starts exactly 180 days after dtstart
HorizonCompleteSeen ==
    /\ call.fn = "Service.CreateRecurringSeries"
    /\ Len(call.repo) = 1
    /\ call.repo[1].byweekday = <<1>>
    /\ call.repo[1].interval = 1
    /\ call.repo[1].count = Some(26)
    /\ HorizonEnd(call.repo[1])
         \in AllStarts(call.repo[1], AllCandidates(call.repo[1]))

\* ------------------------------------------------------------------ properties of the appointment ids

\* the trimmed idempotency key of the create request of task p
KeyOf(p) == TrimSpace(req[p].key)

\* the ids two create requests of one user pass to the store
IdsByKey(p, q) ==
    (CreateReq(p) /\ CreateReq(q) /\ req[p].arg.user = req[q].arg.user)
        => /\ KeyOf(p) # <<>> => req[p].arg.id # NilID
           /\ KeyOf(p) = <<>> => req[p].arg.id = NilID
           /\ KeyOf(p) = KeyOf(q) => req[p].arg.id = req[q].arg.id
           /\ KeyOf(p) # KeyOf(q) => req[p].arg.id # req[q].arg.id

\* the row a create request without a key inserts has the fresh id, which no
\* stored row and no pending row has
FreshAtInsert(p) ==
    (Executes(p) /\ CreateReq(p) /\ KeyOf(p) = <<>> /\ pend'[p].kind = "insertAppointment")
        => /\ pend'[p].row.id = req'[p].fresh
           /\ pend'[p].row.id # NilID
           /\ \A a \in appts : a.id # pend'[p].row.id
           /\ \A s \in series : s.id # pend'[p].row.id
           /\ \A q \in Procs \ {p} :
                 pend[q] # NoWrite => pend[q].row.id # pend'[p].row.id

\* C28: two Create calls with the same user and the same trimmed non-empty
\* idempotency key pass the same non-nil id to the store whatever the
\* payload; two calls with the same user and different keys pass different
\* ids; a call without a key passes the nil id, replaced at insert time by a
\* fresh id distinct from every id already stored.
IdDerivation ==
    [][\A p \in Procs : FreshAtInsert(p) /\ \A q \in Procs : IdsByKey(p, q)']_vars

\* two requests of one user with keys that differ before trimming only, and
\* different titles, carry the same derived id
IdDerivationSeen ==
    \E p, q \in Procs :
        /\ CreateReq(p) /\ CreateReq(q)
        /\ req[p].arg.user = req[q].arg.user
        /\ req[p].key = KeyC /\ req[q].key = KeyPadded
        /\ req[p].arg.title # req[q].arg.title
        /\ req[p].arg.id = req[q].arg.id
        /\ req[p].arg.id # NilID

\* the status the specification gives an error kind
StatusOfKind(err) ==
    IF err = ErrNone THEN OK
    ELSE IF err = ErrValidation THEN InvalidArgument
    ELSE IF err \in {ErrConflict, ErrIdempotencyConflict} THEN FailedPrecondition
    ELSE IF err = ErrNotFound THEN NotFound
    ELSE Internal

\* a required field of the request is missing
MissingRequired(rpc, r) ==
    \/ r.nil
    \/ rpc # "DeleteAppointment" /\ (~r.first \/ ~r.second)
    \/ rpc = "CreateRecurringSeries" /\ ~r.weekly
    \/ rpc = "DeleteAppointment" /\ ~r.uuid

\* C29: in every RPC handler ValidationError maps to invalid-argument,
\* ConflictError and IdempotencyConflictError to failed-precondition,
\* NotFoundError to not-found and every other error to internal; a request
\* missing a required field (times, window, weekly rule, parsable
\* appointment id) is rejected with invalid-argument before the service is
\* called.
StatusMapping ==
    call.fn = "Handler"
        => IF MissingRequired(call.rpc, call.req)
           THEN call.out.status = InvalidArgument /\ ~call.out.called
           ELSE call.out.called /\ call.out.status = StatusOfKind(call.err)

\* a create whose key was used for another payload was answered failed
\* precondition
StatusMappingSeen ==
    /\ call.fn = "Handler"
    /\ call.rpc = "CreateAppointment"
    /\ call.out.called
    /\ call.err = ErrIdempotencyConflict
    /\ call.out.status = FailedPrecondition

\* ------------------------------------------------------------------ properties of the stored appointments

\* C30: stored appointments are never mutated: between the insert that
\* creates an appointment and the delete that removes it none of its fields
\* changes, under any sequence of operations, idempotent replays with equal
\* or different payload and failed creates included; a stored row leaves the
\* table only by a successful delete of it.
NeverMutated ==
    [][/\ \A a \in appts : \A b \in appts' : a.id = b.id => a = b
       /\ \A a \in appts :
             a \notin appts'
                 => \E p \in Procs : /\ Ends(p)
                                     /\ DeleteReq(p)
                                     /\ res'[p].err = ErrNone
                                     /\ pend[p].row = a]_vars

\* a create that replayed the key of a stored appointment with another title
\* has failed, and the stored appointment has the title it was inserted with
NeverMutatedSeen ==
    \E p \in Procs : \E a \in appts :
        /\ pc[p] = "done"
        /\ CreateReq(p)
        /\ res[p].err # ErrNone
        /\ a.id = req[p].arg.id
        /\ a.user = req[p].arg.user
        /\ a.title # req[p].arg.title

\* ------------------------------------------------------------------ properties across users

\* the request of the last write call was run twice
WrittenTwice == call.fn = "Write" /\ ~IsNil(call.again)

\* C31: conflict scope is per user: two runs that differ only in the
\* calendar of another user give a CreateAppointment without idempotency key
\* or a CreateRecurringSeries the same outcome, so the appointments and
\* series of another user never cause ConflictError and appointments of
\* different users overlap freely.
ConflictPerUser ==
    WrittenTwice
        => /\ call.out.err = Val(call.again).out.err
           /\ call.out.val = Val(call.again).out.val
           /\ call.out.write = Val(call.again).out.write

\* a series of Mondays 09:00 was created over the other user's appointment of
\* Monday 09:00 and, run again, over the other user's series of Mondays 09:00
ConflictPerUserSeen ==
    /\ WrittenTwice
    /\ call.req.op = "CreateRecurringSeries"
    /\ call.req.arg.dtstart = SlotA.start
    /\ call.out.err = ErrNone
    /\ \E a \in call.db.appts : a.user = UserB /\ a.start = SlotA.start
    /\ \E x \in Val(call.again).db.series : x.user = UserB /\ x.dtstart = SlotA.start

\* ------------------------------------------------------------------ properties of the returned appointment

\* the request of task p has inserted a row in its transaction
Inserted(p) ==
    /\ pc[p] = "executed"
    /\ CreateReq(p)
    /\ res[p].err = ErrNone
    /\ pend[p].kind = "insertAppointment"

\* C32: on a successful first insert CreateAppointment returns the inserted
\* row: every field of the appointment returned, id and the instants of
\* creation and update included, equals the row stored; and a later replay
\* of the request that succeeds returns that stored row.
ReturnsInsertedRow ==
    \A p \in Procs :
        /\ Inserted(p) => Val(res[p].val) = pend[p].row
        /\ (pc[p] = "done" /\ CreateReq(p) /\ res[p].err = ErrNone)
              => \A a \in appts : a.id = Val(res[p].val).id => a = Val(res[p].val)

\* ------------------------------------------------------------------ properties of the derived ids across users

\* the create requests of tasks p and q carry keys, and differ in the user
\* or in the trimmed key
DifferentPairs(p, q) ==
    /\ CreateReq(p) /\ CreateReq(q)
    /\ KeyOf(p) # <<>> /\ KeyOf(q) # <<>>
    /\ <<req[p].arg.user, KeyOf(p)>> # <<req[q].arg.user, KeyOf(q)>>

\* C33: the id derived from an idempotency key is unique per (user, key):
\* two different pairs never derive the same id, also when the user or the
\* key contains the separator ':' (user a:b with key c, user a with key
\* b:c), so no CreateAppointment fails because of a row with its id that
\* another user owns.
DerivedIdPerPair ==
    \A p \in Procs :
        /\ \A q \in Procs : DifferentPairs(p, q) => req[p].arg.id # req[q].arg.id
        /\ (pc[p] = "executed" /\ CreateReq(p) /\ res[p].err # ErrNone)
              => ~\E a \in appts : a.id = req[p].arg.id /\ a.user # req[p].arg.user

\* ------------------------------------------------------------------ properties of the user lock

\* task p waits for a lock that task q holds
WaitsFor(p, q) ==
    /\ pc[p] = "waiting"
    /\ \E l \in locks : l.holder = q /\ l.key = hashtext(ReqUser(req[p]))

\* C34: writes of different users do not serialize behind one another: a
\* write transaction of one user never waits for the advisory lock held by
\* a write transaction of a different user, whatever the two user ids are.
UsersDoNotWait ==
    \A p, q \in Procs :
        WaitsFor(p, q) => ReqUser(req[p]) = ReqUser(req[q])

\* ------------------------------------------------------------------ properties of a key after a delete

\* the create request of task p carries a key, and no row has its derived id
KeyUnused(p) ==
    /\ CreateReq(p)
    /\ KeyOf(p) # <<>>
    /\ \A a \in appts : a.id # req[p].arg.id

\* C35: idempotency holds only while the row exists: after the appointment
\* created with (user, key) has been deleted, a CreateAppointment with the
\* same (user, key) and any valid payload inserts a new row with the same
\* derived id and returns success, or returns ConflictError; it never
\* returns IdempotencyConflictError.
KeyFreedByDelete ==
    [][\A p \in Procs :
          (Executes(p) /\ KeyUnused(p))
              => /\ res'[p].err \in {ErrNone, ErrConflict}
                 /\ res'[p].err = ErrNone
                       => /\ pend'[p].kind = "insertAppointment"
                          /\ pend'[p].row.id = req[p].arg.id
                          /\ SamePayload(pend'[p].row, req[p].arg)]_vars

\* the appointment of a key was deleted, and a create with the key and
\* another title has then inserted a row with the derived id
KeyFreedByDeleteSeen ==
    \E p, q \in Procs :
        /\ pc[q] = "done" /\ DeleteReq(q) /\ res[q].err = ErrNone
        /\ pc[p] = "done" /\ CreateReq(p) /\ res[p].err = ErrNone
        /\ req[p].key = KeyPadded
        /\ req[q].arg.id = req[p].arg.id
        /\ req[q].arg.user = req[p].arg.user
        /\ \E a \in appts : a.id = req[p].arg.id /\ a.title = TitleD

\* ------------------------------------------------------------------ lock liveness

\* the advisory locks the transaction of task p holds
LocksOf(p) == {l \in locks : l.holder = p}

\* a transaction holds at most one user lock, and none once it has ended
OneLockPerTx ==
    \A p \in Procs :
        /\ Cardinality(LocksOf(p)) <= 1
        /\ pc[p] \in {"idle", "waiting", "done"} => LocksOf(p) = {}

\* C36: lock liveness: the per-user lock is released when its transaction
\* commits or rolls back and a transaction holds at most one user lock, so
\* no set of write requests deadlocks (every transaction that began ends)
\* and, under fair scheduling, every write request that waits for a user's
\* lock eventually acquires it or is cancelled by its deadline.
LockLiveness ==
    /\ []OneLockPerTx
    /\ \A p \in Procs :
          /\ (pc[p] = "waiting")
                ~> (pc[p] = "locked" \/ (pc[p] = "done" /\ res[p].err = ErrDeadline))
          /\ InFlight(p) ~> (pc[p] = "done")

\* a request waits for the lock of its user while the transaction of another
\* request of that user holds it
LockLivenessSeen ==
    \E p, q \in Procs :
        /\ p # q
        /\ WaitsFor(p, q)
        /\ ReqUser(req[p]) = ReqUser(req[q])
        /\ pc[q] = "executed"

\* ------------------------------------------------------------------ overrides in the conflict check

\* the occurrences of the new series the conflict check compares
ComparedOccs(n) == GenerateWeeklyOccurrences(n, n.dtstart, ConflictWindowEnd(n)).occs

\* the comparison window: from the start of the new series to the end of
\* its last compared occurrence
ComparisonWindow(n) ==
    [start |-> n.dtstart, end |-> ComparedOccs(n)[Len(ComparedOccs(n))].end]

\* the override e of a series of the user moves an occurrence onto an
\* occurrence of the new series n, and its occurrence_start is within 14
\* days of the comparison window
OverrideOverlaps(db, n, e) ==
    /\ e.kind = "override"
    /\ \E x \in db.series :
          x.user = n.user /\ x.id = e.series_id /\ x.dtstart = e.occurrence_start
    /\ ~IsNil(e.override_start) /\ ~IsNil(e.override_end)
    /\ Len(ComparedOccs(n)) > 0
    /\ e.occurrence_start >= ComparisonWindow(n).start - ExceptionBufferDays * DayHours
    /\ e.occurrence_start < ComparisonWindow(n).end + ExceptionBufferDays * DayHours
    /\ \E i \in 1..Len(ComparedOccs(n)) :
          /\ ComparedOccs(n)[i].start < Val(e.override_end)
          /\ ComparedOccs(n)[i].end > Val(e.override_start)

\* C37: the series conflict check takes overrides of existing series into
\* account through the 14-day buffer: when an existing series has an
\* override whose occurrence_start lies within 14 days of the comparison
\* window and whose overridden interval overlaps an occurrence of the new
\* series, CreateRecurringSeries returns ConflictError, also when the
\* original occurrence does not intersect the comparison window.
OverridesConflict ==
    call.fn = "WriteOverride"
        => \A e \in call.db.exceptions :
              OverrideOverlaps(call.db, call.req.arg, e) => call.out.err = ErrConflict

\* ------------------------------------------------------------------ termination of the expansion

\* the week loop of a call is in progress or has ended
InWeekLoop == call.fn = "WeekLoop"

\* an iteration that goes on moves the scanned week by interval * 7 days,
\* at least 7 days, towards the week boundary
WeekAdvances ==
    (InWeekLoop /\ call'.weekIndex # call.weekIndex)
        => /\ call'.weekIndex = call.weekIndex + 1
           /\ WeekMonday(LoopContext, call'.weekIndex)
                 = WeekMonday(LoopContext, call.weekIndex)
                     + LoopContext.interval * WeekDays * DayHours
           /\ WeekMonday(LoopContext, call'.weekIndex)
                 >= WeekMonday(LoopContext, call.weekIndex) + WeekDays * DayHours
           /\ WeekMonday(LoopContext, call.weekIndex) < LoopContext.windowEndWeekBoundary

\* why the loop ended: at the first week at or beyond the week boundary, or
\* in a week with a candidate past until or at the count cap; and what it
\* returned is what GenerateWeeklyOccurrences returns
StopsWhenDue ==
    (InWeekLoop /\ call.stop # "running")
        => /\ call.stop \in {"boundary", "until", "count"}
           /\ call.stop = "boundary"
                 => /\ WeekMonday(LoopContext, call.weekIndex)
                          >= LoopContext.windowEndWeekBoundary
                    /\ call.weekIndex > call.first
                          => WeekMonday(LoopContext, call.weekIndex - 1)
                                < LoopContext.windowEndWeekBoundary
           /\ call.stop = "until"
                 => /\ ~IsNil(call.series.until)
                    /\ \E j \in 1..Len(LoopContext.weekdays) :
                          CandidateStart(LoopContext.tz, LoopContext.dtstartLocal,
                                         WeekMonday(LoopContext, call.weekIndex),
                                         LoopContext.weekdays[j]) > Val(call.series.until)
           /\ call.stop = "count" => ~IsNil(call.series.count)
           /\ call.out = GenerateWeeklyOccurrences(call.series, call.windowStart,
                                                   call.windowEnd).occs

\* the number of iterations is bounded by the weeks between the first
\* scanned week and the week boundary
IterationsBounded ==
    InWeekLoop
        => (call.weekIndex - call.first) * WeekDays * DayHours
              <= LoopContext.windowEndWeekBoundary
                    - WeekMonday(LoopContext, call.first) + WeekDays * DayHours
           \/ call.weekIndex = call.first

\* C38: GenerateWeeklyOccurrences terminates for every series and every
\* finite window: the week scan stops as soon as a candidate start exceeds
\* until, the count cap is reached, or the scanned week's Monday is at or
\* beyond the week boundary following the window's end, and the scanned
\* week advances by interval * 7 >= 7 days on every iteration.
ScanTerminates ==
    /\ [][WeekAdvances]_vars
    /\ [](StopsWhenDue /\ IterationsBounded)
    /\ InWeekLoop ~> (InWeekLoop /\ call.stop # "running")

\* an open-ended series of interval 0 scanned over five weeks to the week
\* boundary
ScanTerminatesSeen ==
    /\ InWeekLoop
    /\ call.stop = "boundary"
    /\ call.series.interval = 0
    /\ IsNil(call.series.until) /\ IsNil(call.series.count)
    /\ call.weekIndex >= call.first + 4
    /\ Len(call.out) >= 4

\* ------------------------------------------------------------------ validation in the engine

\* the error messages of the defects a series has
DefectsOf(s) ==
    (IF s.frequency # "weekly" THEN {"unsupported recurrence frequency"} ELSE {})
    \cup (IF s.duration <= 0 THEN {"invalid duration"} ELSE {})
    \cup (IF s.timezone \notin KnownZones THEN {"invalid time_zone"} ELSE {})
    \cup (IF \E i \in 1..Len(s.byweekday) : s.byweekday[i] \notin 1..7
          THEN {"invalid weekday"} ELSE {})
    \cup (IF s.byweekday = <<>> THEN {"at least one weekday is required"} ELSE {})

\* C39: GenerateWeeklyOccurrences returns an error and no occurrences when
\* the frequency is not weekly, the duration is not positive, the time zone
\* is unknown, a weekday is outside 1..7 or the weekday set is empty, for
\* every window; a series with none of these defects is expanded.
EngineRejects ==
    call.fn = "GenerateDefect"
        => IF DefectsOf(call.series) = {}
           THEN call.out.err = "nil"
           ELSE call.out.err \in DefectsOf(call.series) /\ call.out.occs = <<>>

\* a series whose only defect is a duration of zero was rejected for a
\* window that holds its first occurrence
EngineRejectsSeen ==
    /\ call.fn = "GenerateDefect"
    /\ DefectsOf(call.series) = {"invalid duration"}
    /\ call.series.duration = 0
    /\ call.windowStart < call.series.dtstart
    /\ call.series.dtstart < call.windowEnd
    /\ call.out.err = "invalid duration"
    /\ call.out.occs = <<>>

\* ------------------------------------------------------------------ normalization in the engine

\* the series with its weekdays as an ascending list without duplicates and
\* an interval below 1 as 1
Canonical(s) ==
    [s EXCEPT !.byweekday = Ascending({s.byweekday[i] : i \in 1..Len(s.byweekday)}),
              !.interval = IF @ < 1 THEN 1 ELSE @]

\* the starts of a sequence of occurrences
StartsOf(occs) == {occs[i].start : i \in 1..Len(occs)}

\* C40: input normalization in the engine: a series whose weekday list has
\* duplicates or is unordered, or whose interval is below 1, expands to
\* exactly the sequence of the series with the deduplicated ascending
\* weekday list and interval 1; each weekday gives one occurrence per
\* selected week, so no start occurs twice.
EngineNormalizes ==
    call.fn = "GenerateWeeklyOccurrences"
        => /\ call.out = GenerateWeeklyOccurrences(Canonical(call.series),
                                                   call.windowStart, call.windowEnd)
           /\ Cardinality(StartsOf(call.out.occs)) = Len(call.out.occs)

\* the series on <<3, 1, 3>> with interval 0 expanded over weeks 1 and 2:
\* Monday and Wednesday of each week
EngineNormalizesSeen ==
    /\ call.fn = "GenerateWeeklyOccurrences"
    /\ call.series.byweekday = <<3, 1, 3>>
    /\ call.series.interval = 0
    /\ Canonical(call.series) # call.series
    /\ StartsOf(call.out.occs) = {At(1, 0, 9), At(1, 2, 9), At(2, 0, 9), At(2, 2, 9)}

====
